---------------------------- MODULE Spec2Model ----------------------------
(***************************************************************************)
(* CoreUpdateCLI: the live process sessions, the row parsers and the       *)
(* health-check orchestration of part2_helpers.py and part3_health.py.     *)
(*                                                                         *)
(* Text is modelled by TLA+ strings, character by character: str.strip,    *)
(* re.match and re.split are operators that scan the characters.           *)
(* Progress values are floats in the source; here they are fixed-point     *)
(* integers, FP(x) = 200 * x, so that the steps (end - start) / 50 and     *)
(* (end - start) / 40 of the source are exact.                             *)
(***************************************************************************)
EXTENDS Integers, Sequences, FiniteSets, TLC

(***************************************************************************)
(* Strings                                                                 *)
(***************************************************************************)

\* Python's whitespace, for the characters a line can hold.
IsSpace(c) == c \in {" ", "\t"}

Last(s) == SubSeq(s, Len(s), Len(s))

RECURSIVE LStrip(_)
LStrip(s) == IF s # "" /\ IsSpace(Head(s)) THEN LStrip(Tail(s)) ELSE s

RECURSIVE RStrip(_)
RStrip(s) ==
    IF s # "" /\ IsSpace(Last(s)) THEN RStrip(SubSeq(s, 1, Len(s) - 1)) ELSE s

Strip(s) == LStrip(RStrip(s))

StartsWith(s, p) == Len(s) >= Len(p) /\ SubSeq(s, 1, Len(p)) = p

UpperChars == "ABCDEFGHIJKLMNOPQRSTUVWXYZ"
LowerChars == "abcdefghijklmnopqrstuvwxyz"

LowerChar(c) ==
    IF \E i \in 1..Len(UpperChars) : SubSeq(UpperChars, i, i) = c
    THEN LET i == CHOOSE k \in 1..Len(UpperChars) : SubSeq(UpperChars, k, k) = c
         IN  SubSeq(LowerChars, i, i)
    ELSE c

RECURSIVE Lower(_)
Lower(s) == IF s = "" THEN "" ELSE LowerChar(Head(s)) \o Lower(Tail(s))

\* The length of the run of whitespace that s starts with.
RECURSIVE SpaceRun(_)
SpaceRun(s) == IF s # "" /\ IsSpace(Head(s)) THEN 1 + SpaceRun(Tail(s)) ELSE 0

\* str.splitlines for "\n" line ends: line k lies between the line ends
\* k - 1 and k; text after the last line end is a line too.
LineEnds(s) == {i \in 1..Len(s) : SubSeq(s, i, i) = "\n"}

\* The position of the k-th of the line ends E of s; 0 for k = 0,
\* Len(s) + 1 past the last.
LineEnd(s, E, k) ==
    IF k = 0 THEN 0
    ELSE IF k > Cardinality(E) THEN Len(s) + 1
    ELSE CHOOSE p \in E : Cardinality({q \in E : q <= p}) = k

SplitLines(s) ==
    LET E == LineEnds(s)
        n == Cardinality(E)
        m == IF s # "" /\ Last(s) # "\n" THEN n + 1 ELSE n
    IN  [k \in 1..m |-> SubSeq(s, LineEnd(s, E, k - 1) + 1, LineEnd(s, E, k) - 1)]

\* The text of lines that each end in "\n".
RECURSIVE TextOf(_)
TextOf(ls) == IF ls = <<>> THEN "" ELSE ls[1] \o "\n" \o TextOf(Tail(ls))

\* "\n".join(lines)
RECURSIVE JoinLines(_)
JoinLines(ls) ==
    IF ls = <<>> THEN ""
    ELSE IF Len(ls) = 1 THEN ls[1]
    ELSE ls[1] \o "\n" \o JoinLines(Tail(ls))

\* str.strip() of a text that may hold line ends.
IsSpaceNL(c) == IsSpace(c) \/ c = "\n"

RECURSIVE LStripNL(_)
LStripNL(s) == IF s # "" /\ IsSpaceNL(Head(s)) THEN LStripNL(Tail(s)) ELSE s

RECURSIVE RStripNL(_)
RStripNL(s) ==
    IF s # "" /\ IsSpaceNL(Last(s)) THEN RStripNL(SubSeq(s, 1, Len(s) - 1)) ELSE s

StripNL(s) == LStripNL(RStripNL(s))

(***************************************************************************)
(* The regular expressions of the table parsers                            *)
(***************************************************************************)

\* re.split(r"\s{2,}", s): a run of two or more whitespace characters ends a
\* column, a single one stays inside it; cur is the column being read.
RECURSIVE SplitColsFrom(_, _)
SplitColsFrom(s, cur) ==
    IF s = "" THEN <<cur>>
    ELSE LET n == SpaceRun(s)
         IN  IF n >= 2
             THEN <<cur>> \o SplitColsFrom(SubSeq(s, n + 1, Len(s)), "")
             ELSE SplitColsFrom(Tail(s), cur \o Head(s))

SplitCols(s) == SplitColsFrom(s, "")

\* re.match(r"^\s*(Name|---)", line)
MatchNameOrDashes(line) ==
    LET t == LStrip(line) IN StartsWith(t, "Name") \/ StartsWith(t, "---")

\* s after the word w and the whitespace (one character or more) behind it,
\* or "\n" (no line holds it) when s does not start so: the step  w\s+  of a
\* pattern.
AfterWord(s, w) ==
    IF StartsWith(s, w) /\ SpaceRun(SubSeq(s, Len(w) + 1, Len(s))) >= 1
    THEN LStrip(SubSeq(s, Len(w) + 1, Len(s)))
    ELSE "\n"

\* re.match(r"^\s*Name\s+Id\s+Version\s+Available", line)
MatchHeader(line) ==
    StartsWith(AfterWord(AfterWord(AfterWord(LStrip(line), "Name"), "Id"), "Version"),
               "Available")

\* re.match(r"^\s*-{3,}", line)
MatchSeparator(line) == StartsWith(LStrip(line), "---")


\* "sub in s" of Python
Contains(s, sub) ==
    \E i \in 1..(Len(s) - Len(sub) + 1) : SubSeq(s, i, i + Len(sub) - 1) = sub

(***************************************************************************)
(* Python values, as json.loads returns them                               *)
(***************************************************************************)

None == [k |-> "null"]
Str(s) == [k |-> "str", s |-> s]
List(items) == [k |-> "list", items |-> items]
Dict(f) == [k |-> "dict", f |-> f]
\* json.loads raised (JSONDecodeError)
Malformed == [k |-> "malformed"]

\* bool(v)
Truthy(v) ==
    CASE v.k = "str" -> v.s # ""
      [] v.k = "list" -> v.items # <<>>
      [] v.k = "dict" -> DOMAIN v.f # {}
      [] OTHER -> FALSE

\* a or b
Or(a, b) == IF Truthy(a) THEN a ELSE b

\* d.get(key) and d.get(key, dflt) of a dict
Get(d, key) == IF key \in DOMAIN d.f THEN d.f[key] ELSE None
GetDefault(d, key, dflt) == IF key \in DOMAIN d.f THEN d.f[key] ELSE dflt

\* Whether  for it in v: it.get(...)  runs without TypeError or
\* AttributeError: v is a list of dicts, or iterating it yields nothing.
IterableOfDicts(v) ==
    CASE v.k = "list" -> \A i \in 1..Len(v.items) : v.items[i].k = "dict"
      [] v.k = "dict" -> DOMAIN v.f = {}
      [] v.k = "str" -> v.s = ""
      [] OTHER -> FALSE

\* The values the loop  for it in v  visits, for v as IterableOfDicts.
ItemsOf(v) == IF v.k = "list" THEN v.items ELSE <<>>

(***************************************************************************)
(* The outputs the wrapped tools print (sample texts) and json.loads       *)
(***************************************************************************)

DocEmptyArray == "[]"
DocNull == "null"
DocTruncated == "[{\"Id\":"
DocUpgOne == "[{\"Id\":\"A.App\",\"Name\":\"A\",\"Version\":\"1.0\",\"Available\":\"2.0\"}]"
DocUpgAlias ==
    "[{\"Name\":\"B\",\"Id\":\"B.App\",\"Version\":\"1\",\"Available\":\"3\"},\n"
    \o "{\"PackageIdentifier\":\"C.App\",\"InstalledVersion\":\"4\",\"AvailableVersion\":\"5\"}]"
DocUpgMissing ==
    "[{\"Id\":\"D.App\",\"Name\":\"D\",\"Version\":\"1\"},\n"
    \o "{\"Id\":\"\",\"Name\":\"E\",\"Available\":\"2\"},\n"
    \o "{\"Id\":\"F.App\",\"Name\":\"F\",\"Version\":\"1\",\"Available\":\"2\"}]"
DocUpgAllMissing == "[{\"Id\":\"G.App\",\"Available\":null}]"
DocUpgObject == "{\"Id\":\"H.App\",\"Available\":\"2\"}"
DocUpgStrings == "[\"I.App\"]"
DocUpdTwo ==
    "[\n{\"Title\":\"Update KB5001\",\"KB\":\"KB5001\",\"UpdateId\":\"u1\",\"Categories\":[\"Drivers\"]},\n"
    \o "{\"Title\":\"Defender\",\"KB\":null,\"UpdateId\":\"u2\",\"Categories\":[]}\n]"
DocUpdObject == "{\"Title\":\"Only\",\"KB\":\"KB7\",\"UpdateId\":\"u7\",\"Categories\":null}   "
DocUpdBare == "[{\"Title\":\"NoId\"}]"

\* The most updates of a Windows Update document.
MaxUpdates == 41

\* ConvertTo-Json of n updates, one to a line, and its value.
DocUpdManyLines(n) ==
    <<"[">>
    \o [i \in 1..n |->
          "{\"Title\":\"U" \o ToString(i) \o "\"}" \o (IF i < n THEN "," ELSE "")]
    \o <<"]">>
ValUpdMany(n) == List([i \in 1..n |-> Dict([Title |-> Str("U" \o ToString(i))])])

\* json.loads(text): the value of each sample document; any other text (a
\* table, an error message, a truncated document) is no JSON.
json_loads(text) ==
    LET t == StripNL(text) IN
    CASE t = DocEmptyArray -> List(<<>>)
      [] t = DocNull -> None
      [] t = DocUpgOne ->
            List(<<Dict([Id |-> Str("A.App"), Name |-> Str("A"),
                         Version |-> Str("1.0"), Available |-> Str("2.0")])>>)
      [] t = DocUpgAlias ->
            List(<<Dict([Name |-> Str("B"), Id |-> Str("B.App"),
                         Version |-> Str("1"), Available |-> Str("3")]),
                   Dict([PackageIdentifier |-> Str("C.App"),
                         InstalledVersion |-> Str("4"),
                         AvailableVersion |-> Str("5")])>>)
      [] t = DocUpgMissing ->
            List(<<Dict([Id |-> Str("D.App"), Name |-> Str("D"), Version |-> Str("1")]),
                   Dict([Id |-> Str(""), Name |-> Str("E"), Available |-> Str("2")]),
                   Dict([Id |-> Str("F.App"), Name |-> Str("F"),
                         Version |-> Str("1"), Available |-> Str("2")])>>)
      [] t = DocUpgAllMissing ->
            List(<<Dict([Id |-> Str("G.App"), Available |-> None])>>)
      [] t = DocUpgObject -> Dict([Id |-> Str("H.App"), Available |-> Str("2")])
      [] t = DocUpgStrings -> List(<<Str("I.App")>>)
      [] t = DocUpdTwo ->
            List(<<Dict([Title |-> Str("Update KB5001"), KB |-> Str("KB5001"),
                         UpdateId |-> Str("u1"),
                         Categories |-> List(<<Str("Drivers")>>)]),
                   Dict([Title |-> Str("Defender"), KB |-> None,
                         UpdateId |-> Str("u2"), Categories |-> List(<<>>)])>>)
      [] t = StripNL(DocUpdObject) ->
            Dict([Title |-> Str("Only"), KB |-> Str("KB7"),
                  UpdateId |-> Str("u7"), Categories |-> None])
      [] t = DocUpdBare -> List(<<Dict([Title |-> Str("NoId")])>>)
      [] t = JoinLines(DocUpdManyLines(MaxUpdates)) -> ValUpdMany(MaxUpdates)
      [] OTHER -> Malformed

(***************************************************************************)
(* Row parsers of part2_helpers.py                                         *)
(***************************************************************************)

WingetApp(id, name, version, available) ==
    [id |-> id, name |-> name, version |-> version, available |-> available]

\* UpgradeItemRow with the two versions taken for each other.
UpgradeItemRowSwapped(it) ==
    WingetApp(Or(Get(it, "Id"), Get(it, "PackageIdentifier")),
              GetDefault(it, "Name", Str("")),
              Or(Or(Get(it, "Available"), Get(it, "AvailableVersion")), Str("")),
              Or(Or(Get(it, "Version"), Get(it, "InstalledVersion")), Str("")))

\* The fields winget_list_upgrades reads from one JSON item.
UpgradeItemRow(it) ==
    WingetApp(Or(Get(it, "Id"), Get(it, "PackageIdentifier")),
              GetDefault(it, "Name", Str("")),
              Or(Or(Get(it, "Version"), Get(it, "InstalledVersion")), Str("")),
              Or(Or(Get(it, "Available"), Get(it, "AvailableVersion")), Str("")))

\* UpgradeItemKept without its test: every item gives a row.
UpgradeItemKeptAlways(row) == TRUE

\* if pid and avail
UpgradeItemKept(row) == Truthy(row.id) /\ Truthy(row.available)

\* The loop over the decoded items: one row per item that has both fields.
RECURSIVE UpgradeJsonRows(_)
UpgradeJsonRows(items) ==
    IF items = <<>> THEN <<>>
    ELSE LET row == UpgradeItemRow(Head(items))
         IN  (IF UpgradeItemKept(row) THEN <<row>> ELSE <<>>)
             \o UpgradeJsonRows(Tail(items))

\* The try block of winget_list_upgrades: the rows it returns, or <<>> when
\* it returns nothing (decoding or the loop raised, or no row was kept) and
\* the function goes on to the table.
UpgradeJsonPath(stdout) ==
    LET v == json_loads(stdout)
    IN  IF IterableOfDicts(v) THEN UpgradeJsonRows(ItemsOf(v)) ELSE <<>>

\* The condition on a table line's columns in winget_list_upgrades.
UpgradeTableKept(pid, avail) ==
    pid # "" /\ avail # "" /\ ~StartsWith(Lower(pid), "no ")

\* The rows of one line of the table fallback of winget_list_upgrades.
UpgradeTableLine(line) ==
    IF MatchNameOrDashes(line) THEN <<>>
    ELSE LET parts == SplitCols(Strip(line))
         IN  IF Len(parts) >= 4 /\ UpgradeTableKept(parts[2], parts[4])
             THEN <<WingetApp(Str(parts[2]), Str(parts[1]), Str(parts[3]), Str(parts[4]))>>
             ELSE <<>>

RECURSIVE UpgradeTableRows(_)
UpgradeTableRows(lines) ==
    IF lines = <<>> THEN <<>>
    ELSE UpgradeTableLine(Head(lines)) \o UpgradeTableRows(Tail(lines))

\* ensure_winget_ready(): "ok", or "runtime_error" (winget is missing or
\* fails, the store page is opened and RuntimeError raised), or
\* "popen_error" (powershell is missing too: Popen raises FileNotFoundError
\* inside the handler).
ReadyOutcomes == {"ok", "runtime_error", "popen_error"}

\* winget_list_upgrades(): what it returns, or that it raised.
winget_list_upgrades(ready, help_out, json_out, table_out) ==
    IF ready = "runtime_error" THEN [raised |-> FALSE, rows |-> <<>>]
    ELSE IF ready = "popen_error" THEN [raised |-> TRUE, rows |-> <<>>]
    ELSE IF Contains(help_out, "--output") /\ UpgradeJsonPath(json_out) # <<>>
    THEN [raised |-> FALSE, rows |-> UpgradeJsonPath(json_out)]
    ELSE [raised |-> FALSE, rows |-> UpgradeTableRows(SplitLines(table_out))]

\* The condition on a table line's columns in winget_list_installed.
InstalledTableKept(pid) == pid # "" /\ ~StartsWith(Lower(pid), "no ")

InstalledTableLine(line) ==
    IF MatchNameOrDashes(line) THEN <<>>
    ELSE LET parts == SplitCols(Strip(line))
         IN  IF Len(parts) >= 3 /\ InstalledTableKept(parts[2])
             THEN <<WingetApp(Str(parts[2]), Str(parts[1]), Str(parts[3]), Str(""))>>
             ELSE <<>>

RECURSIVE InstalledTableRows(_)
InstalledTableRows(lines) ==
    IF lines = <<>> THEN <<>>
    ELSE InstalledTableLine(Head(lines)) \o InstalledTableRows(Tail(lines))

winget_list_installed(ready, table_out) ==
    IF ready = "runtime_error" THEN [raised |-> FALSE, rows |-> <<>>]
    ELSE IF ready = "popen_error" THEN [raised |-> TRUE, rows |-> <<>>]
    ELSE [raised |-> FALSE, rows |-> InstalledTableRows(SplitLines(table_out))]

\* list(s) of a string: its characters
RECURSIVE Chars(_)
Chars(s) == IF s = "" THEN <<>> ELSE <<Str(Head(s))>> \o Chars(Tail(s))

\* list(v or []) for the Categories of an update
CategoryList(v) ==
    IF ~Truthy(v) THEN <<>>
    ELSE IF v.k = "list" THEN v.items
    ELSE Chars(v.s)

WinUpdate(title, kb, update_id, categories) ==
    [title |-> title, kb |-> kb, update_id |-> update_id, categories |-> categories]

UpdateItemRow(it) ==
    WinUpdate(GetDefault(it, "Title", Str("")), Get(it, "KB"),
              GetDefault(it, "UpdateId", Str("")),
              CategoryList(GetDefault(it, "Categories", List(<<>>))))

RECURSIVE UpdateRows(_)
UpdateRows(items) ==
    IF items = <<>> THEN <<>>
    ELSE <<UpdateItemRow(Head(items))>> \o UpdateRows(Tail(items))

\* PsParseUpdates with json.loads outside any try: a decode error leaves
\* the function.
PsParseUpdatesNoTry(rc, out) ==
    IF rc # 0 \/ StripNL(out) = "" THEN [raised |-> FALSE, rows |-> <<>>]
    ELSE LET v == json_loads(out)
             items == IF v.k = "dict" THEN List(<<v>>) ELSE v
         IN  IF v = Malformed THEN [raised |-> TRUE, rows |-> <<>>]
             ELSE IF ~IterableOfDicts(items) THEN [raised |-> TRUE, rows |-> <<>>]
             ELSE [raised |-> FALSE, rows |-> UpdateRows(ItemsOf(items))]

\* The parse of _ps_get_updates, from the (rc, out) its live session
\* returned: the early returns, json.loads inside try, a lone object
\* wrapped in a list, and the loop over the items outside the try.
PsParseUpdates(rc, out) ==
    IF rc # 0 \/ StripNL(out) = "" THEN [raised |-> FALSE, rows |-> <<>>]
    ELSE LET v == json_loads(out)
             items == IF v.k = "dict" THEN List(<<v>>) ELSE v
         IN  IF v = Malformed THEN [raised |-> FALSE, rows |-> <<>>]
             ELSE IF ~IterableOfDicts(items) THEN [raised |-> TRUE, rows |-> <<>>]
             ELSE [raised |-> FALSE, rows |-> UpdateRows(ItemsOf(items))]

(***************************************************************************)
(* State                                                                   *)
(***************************************************************************)

VARIABLES
    mode,        \* the entry point this run executes
    arg,         \* the arguments and the environment of the run
    stage,       \* the session of an entry point that runs several
    pc,          \* where the code is
    proc,        \* the spawned process: "none", "running", "hung", "exited", "killed"
    returncode,  \* proc.returncode once the process has exited
    written,     \* the lines the process has printed so far
    pipe,        \* the lines printed and not read yet
    logs,        \* the rolling log list
    appended,    \* every entry appended to logs so far, in order (history)
    completed,   \* the progress task's completed value, fixed-point
    total,       \* the progress task's total, fixed-point
    combined,    \* run_with_live_output: the captured lines
    tick,        \* run_with_live_output: the lines counted
    phase,       \* the phase helpers: [start, end], fixed-point
    lines,       \* the phase helpers: the lines (or items) looped over
    idx,         \* the phase helpers: the next one
    header_seen, \* _stream_winget_upgrades
    sep_seen,    \* _stream_winget_upgrades
    current_pct, \* _stream_winget_upgrades, fixed-point
    rows,        \* the rows parsed so far (apps, items)
    junk_size,   \* health_check: the bytes calc_size found
    ret,         \* what the last function returned
    raised,      \* whether an exception left the entry point
    reaped,      \* whether the spawned process has been waited on
    live,        \* whether the Live display is running
    shown,       \* the frame of the display's last refresh: [completed, logs]
    ran,         \* the sessions run_with_live_output was called for (their
                 \* titles) and the cleanings run, in order
    pid,         \* winget_upgrade, winget_uninstall: the identifier at work
    choice,      \* health_check: the answer to the Fix All prompt
    log_file     \* the log file: whether it exists and its text

ctlVars == <<mode, arg, stage>>
procVars == <<proc, returncode, written, pipe>>
logVars == <<logs, appended>>
barVars == <<completed, total>>
liveVars == <<combined, tick>>
loopVars == <<lines, idx, header_seen, sep_seen, current_pct, rows>>
hcVars == <<junk_size, choice>>
outVars == <<ret, raised>>
waitVars == <<reaped>>
dispVars == <<live, shown>>
cmdVars == <<ran, pid>>
fileVars == <<log_file>>
extVars == <<waitVars, dispVars, cmdVars, fileVars>>

vars == <<ctlVars, pc, procVars, logVars, barVars, liveVars, phase, loopVars,
          hcVars, outVars, extVars>>

\* A progress value x of the source as a fixed-point integer.
FP(x) == 200 * x

(***************************************************************************)
(* The spawned process                                                     *)
(***************************************************************************)

\* The most lines a process prints in a run_with_live_output session.
MaxLiveLines == 42
\* The most lines printed and not yet read by readline.
PipeCap == 2

\* Line i of a process that prints numbered lines: with "plain" every line
\* is distinct text; with "ragged" lines end in whitespace and every third
\* line is blank.
PatternLine(p, i) ==
    IF p = "plain" THEN "line " \o ToString(i)
    ELSE IF i % 3 = 0 THEN "" ELSE "out " \o ToString(i) \o " \t"

\* What a process prints: a numbered pattern, or given lines.
Pattern(p) == [kind |-> "pattern", p |-> p]
Lines(ls) == [kind |-> "lines", lines |-> ls]

ScriptLen(sc) == IF sc.kind = "pattern" THEN MaxLiveLines ELSE Len(sc.lines)
ScriptLine(sc, i) == IF sc.kind = "pattern" THEN PatternLine(sc.p, i) ELSE sc.lines[i]

\* The exit codes of a process: success, a tool failure, killed by a signal.
ExitCodes == {0, 1, -9}

\* The process prints its next line. readline takes the lines one by one
\* from a bounded pipe; communicate() drains the pipe as the process writes.
ProcWrite ==
    /\ proc = "running"
    /\ written < ScriptLen(arg.script[stage])
    /\ Len(pipe) < PipeCap \/ pc \in {"stream_comm", "scan_comm"}
    /\ pipe' = Append(pipe, ScriptLine(arg.script[stage], written + 1))
    /\ written' = written + 1
    /\ UNCHANGED <<extVars, hcVars, ctlVars, pc, proc, returncode, logVars, barVars, liveVars,
                   phase, loopVars, outVars>>

\* The process exits, which closes its end of the pipe.
ProcExit ==
    /\ proc = "running"
    /\ \E rc \in ExitCodes :
          /\ proc' = "exited"
          /\ returncode' = rc
    /\ UNCHANGED <<extVars, hcVars, ctlVars, pc, written, pipe, logVars, barVars, liveVars,
                   phase, loopVars, outVars>>

\* The process goes silent for good: it prints nothing more and never exits.
ProcHang ==
    /\ proc = "running"
    /\ proc' = "hung"
    /\ UNCHANGED <<extVars, hcVars, ctlVars, pc, returncode, written, pipe, logVars, barVars,
                   liveVars, phase, loopVars, outVars>>

(***************************************************************************)
(* run_with_live_output (part2_helpers.py)                                 *)
(***************************************************************************)

\* The capacity of the log list of run_with_live_output.
LiveLogCap == 40

\* s[-n:]
\* LastN keeping the first n entries instead: s[:n].
FirstN(s, n) == IF Len(s) > n THEN SubSeq(s, 1, n) ELSE s

\* s[-n:]
LastN(s, n) == IF Len(s) > n THEN SubSeq(s, Len(s) - n + 1, Len(s)) ELSE s

\* LiveLogAppend appending nothing.
LiveLogUnchanged(lg, s) == lg

\* logs.append(s); if len(logs) > 40: logs = logs[-40:]
LiveLogAppend(lg, s) == LastN(Append(lg, s), LiveLogCap)

\* LiveAdvance without its guard: the bar advances on every line.
LiveAdvanceUnguarded(done, t, soft_total) == done + FP(1)

\* if tick <= soft_total: progress.advance(task, 1)
LiveAdvance(done, t, soft_total) ==
    IF t <= soft_total THEN done + FP(1) ELSE done

\* proc.returncode or 0
ReturnCodeOr0(rc) == IF rc # 0 THEN rc ELSE 0

\* f"Updating {pid}"
UpgradeTitle(p) == "Updating " \o p

\* winget_upgrade, lines 202-208: the session of an identifier.
UpgradeSession(p) ==
    [title |-> UpgradeTitle(p), soft_total |-> 120, exe |-> "winget", found |-> arg.found]

\* winget_uninstall, lines 213-217: the session of an identifier.
UninstallSession(p) ==
    [title |-> "Uninstall " \o p, soft_total |-> 80, exe |-> "winget", found |-> arg.found]

\* The session of the call: its title, soft_total and whether the
\* executable is found.
Session ==
    IF mode = "upgrade" THEN UpgradeSession(pid)
    ELSE IF mode = "uninstall" THEN UninstallSession(pid)
    ELSE arg.session[stage]

\* Lines 28-56: the layout, the progress task and the seeded log.
LiveStart ==
    /\ pc = "live_start"
    /\ logs' = LiveLogAppend(<<>>, Session.title)
    /\ appended' = <<Session.title>>
    /\ combined' = <<>>
    /\ tick' = 0
    /\ completed' = 0
    /\ total' = FP(Session.soft_total)
    /\ ran' = Append(ran, Session.title)
    /\ pc' = "live_spawn"
    /\ UNCHANGED <<pid, waitVars, dispVars, fileVars, hcVars, ctlVars, procVars,
                   phase, loopVars, outVars>>

\* CommandNotFound with the exit code of a success.
CommandNotFoundAsSuccess(exe) == [rc |-> 0, out |-> "Command not found: " \o exe]

\* Lines 62-66: msg = f"Command not found: {cmd[0]}"; return 127, msg
CommandNotFound(exe) == [rc |-> 127, out |-> "Command not found: " \o exe]

\* Lines 58-69: Popen and the Live display entered, or FileNotFoundError
\* and (127, msg) before the display is entered.
LiveSpawn ==
    /\ pc = "live_spawn"
    /\ IF Session.found
       THEN /\ proc' = "running"
            /\ reaped' = FALSE
            /\ live' = TRUE
            /\ pc' = "live_loop"
            /\ ret' = ret
       ELSE /\ proc' = "none"
            /\ UNCHANGED <<reaped, live>>
            /\ pc' = "live_done"
            /\ ret' = CommandNotFound(Session.exe)
    /\ written' = 0
    /\ pipe' = <<>>
    /\ UNCHANGED <<shown, cmdVars, fileVars, hcVars, ctlVars, returncode, logVars,
                   barVars, liveVars, phase, loopVars, raised>>

\* Lines 71-83: readline returns a line; the loop body.
LiveReadLine ==
    /\ pc = "live_loop"
    /\ pipe # <<>>
    /\ LET s == RStrip(Head(pipe)) IN
          /\ combined' = Append(combined, s)
          /\ logs' = LiveLogAppend(logs, s)
          /\ appended' = Append(appended, s)
          /\ tick' = tick + 1
          /\ completed' = LiveAdvance(completed, tick + 1, Session.soft_total)
    /\ pipe' = Tail(pipe)
    /\ UNCHANGED <<extVars, hcVars, ctlVars, pc, proc, returncode, written, total, phase,
                   loopVars, outVars>>

\* Lines 71-73: readline returns "" at the end of the output and poll()
\* reports the exit: break.
LiveReadEOF ==
    /\ pc = "live_loop"
    /\ pipe = <<>>
    /\ proc = "exited"
    /\ pc' = "live_wait"
    /\ UNCHANGED <<extVars, hcVars, ctlVars, procVars, logVars, barVars, liveVars, phase,
                   loopVars, outVars>>

\* Lines 85-87: proc.wait() and the bar set to soft_total; the with block
\* of the Live display ends, which refreshes it a last time.
LiveFinish ==
    /\ pc = "live_wait"
    /\ reaped' = TRUE
    /\ completed' = FP(Session.soft_total)
    /\ live' = FALSE
    /\ shown' = [completed |-> FP(Session.soft_total), logs |-> logs]
    /\ pc' = "live_return"
    /\ UNCHANGED <<cmdVars, fileVars, hcVars, ctlVars, procVars, logVars, total,
                   liveVars, phase, loopVars, outVars>>

\* Lines 89-93: return proc.returncode or 0, "\n".join(combined)
LiveReturn ==
    /\ pc = "live_return"
    /\ ret' = [rc |-> ReturnCodeOr0(returncode), out |-> JoinLines(combined)]
    /\ pc' = "live_done"
    /\ UNCHANGED <<extVars, hcVars, ctlVars, procVars, logVars, barVars, liveVars, phase,
                   loopVars, raised>>

(***************************************************************************)
(* health_check and _stream_winget_upgrades (part3_health.py)              *)
(*                                                                         *)
(* The ellipsis and the arrow of the source's messages are written "..."   *)
(* and "->".                                                               *)
(***************************************************************************)

\* The number of entries the health check keeps in its log list.
HealthLogCap == 20
\* The nominal number of lines of a winget scan: the divisor of _bump.
StreamEvents == 50

\* HealthLogAppend appending nothing.
HealthLogUnchanged(lg, s) == lg

\* logs.append(s); if len(logs) > 20: logs.pop(0)
HealthLogAppend(lg, s) ==
    LET a == Append(lg, s) IN IF Len(a) > HealthLogCap THEN Tail(a) ELSE a

Min(a, b) == IF a <= b THEN a ELSE b

\* What the user answers to "Apply Fix All now? (Y/N): ".
FixAnswers == {" Y", "yes", ""}

\* The sizes calc_size finds in the runs: nothing, 2 KB, 1.5 MB.
JunkSizes == {0, 2048, 1572864}

Units == <<"B", "KB", "MB", "GB", "TB">>

\* The loop of human_bytes: the unit i reached, dividing by 1024 while the
\* value is 1024 or more; d is 1024^(i-1).
RECURSIVE UnitOf(_, _, _)
UnitOf(n, d, i) ==
    IF n >= 1024 * d /\ i < Len(Units) THEN UnitOf(n, 1024 * d, i + 1) ELSE <<d, i>>

\* human_bytes(n): f"{f:.1f} {units[i]}", the tenths rounded to nearest.
human_bytes(n) ==
    LET u == UnitOf(n, 1, 1)
        tenths == (20 * n + u[1]) \div (2 * u[1])
    IN  ToString(tenths \div 10) \o "." \o ToString(tenths % 10) \o " " \o Units[u[2]]

\* Bump advancing by two steps.
BumpTwice(cur, ph) == Min(ph.end, cur + 2 * ((ph.end - ph.start) \div StreamEvents))

\* _bump: current_pct = min(phase_end, current_pct + step)
Bump(cur, ph) == Min(ph.end, cur + (ph.end - ph.start) \div StreamEvents)

\* platform.system().lower()
OSNames == {"windows", "darwin", "linux"}

\* subprocess.run(["brew", "--version"]): exit 0, another exit code, or
\* FileNotFoundError because there is no brew.
BrewOutcomes == {"ok", "fails", "missing"}

\* ensure_deps(apps=True, updates=True), when the session of
\* ensure_pswindowsupdate_installed (ps_ok: what it returned) returns:
\* whether an exception leaves it, and the ok it returns otherwise. On
\* Windows every exception of ensure_winget_ready is caught; on macOS the
\* run of brew is in no try block.
ensure_deps(os, ready, brew, ps_ok) ==
    LET apps == IF os = "windows" THEN [raised |-> FALSE, ok |-> ready = "ok"]
                ELSE IF os = "darwin"
                     THEN [raised |-> brew = "missing", ok |-> brew = "ok"]
                ELSE [raised |-> FALSE, ok |-> FALSE]
        updates == os = "windows" /\ ps_ok
    IN  [raised |-> apps.raised, ok |-> ~apps.raised /\ apps.ok /\ updates]

\* Lines 236-237: the dependency check; its result only prints a warning.
HCEnsureDeps ==
    /\ pc = "hc_deps"
    /\ \E os \in OSNames, ready \in ReadyOutcomes, brew \in BrewOutcomes, ps_ok \in BOOLEAN :
          LET r == ensure_deps(os, ready, brew, ps_ok)
          IN  /\ raised' = r.raised
              /\ pc' = IF r.raised THEN "hc_raised" ELSE "hc_start"
    /\ UNCHANGED <<extVars, hcVars, ctlVars, procVars, logVars, barVars, liveVars, phase,
                   loopVars, ret>>

\* AppsPhase with the weight of the skipped phase redistributed: 40 of 60.
AppsPhaseRenormalised == [start |-> FP(0), end |-> (FP(100) * 40) \div 60]

\* phase_start=0.0, phase_end=40.0: the range of the app scan.
AppsPhase == [start |-> FP(0), end |-> FP(40)]

\* progress.update(task, completed=80.0): the end of the Windows phase.
WindowsPhaseEnd == FP(80)

\* Lines 242-264: the layout, the task at 0 of 100, the Live display
\* entered, the first log entry.
HCStart ==
    /\ pc = "hc_start"
    /\ logs' = Append(<<>>, "Preparing winget app scan...")
    /\ appended' = <<"Preparing winget app scan...">>
    /\ completed' = 0
    /\ total' = FP(100)
    /\ phase' = AppsPhase
    /\ pc' = "stream_spawn"
    /\ live' = TRUE
    /\ UNCHANGED <<waitVars, shown, cmdVars, fileVars, hcVars, ctlVars, procVars, liveVars, loopVars, outVars>>

\* Lines 79-102: Popen, or FileNotFoundError and the early return.
StreamSpawn ==
    /\ pc = "stream_spawn"
    /\ IF Session.found
       THEN /\ proc' = "running"
            /\ logs' = Append(logs, "Checking for app updates...")
            /\ appended' = Append(appended, "Checking for app updates...")
            /\ pc' = "stream_comm"
            /\ ret' = ret
       ELSE /\ proc' = "none"
            /\ logs' = Append(logs, "winget not found (install App Installer from Microsoft Store).")
            /\ appended' = Append(appended, "winget not found (install App Installer from Microsoft Store).")
            /\ pc' = "stream_returned"
            /\ ret' = <<>>
    /\ written' = 0
    /\ pipe' = <<>>
    /\ rows' = <<>>
    /\ header_seen' = FALSE
    /\ sep_seen' = FALSE
    /\ current_pct' = phase.start
    /\ reaped' = (IF Session.found THEN FALSE ELSE reaped)
    /\ UNCHANGED <<dispVars, cmdVars, fileVars, hcVars, ctlVars, returncode, barVars, liveVars, phase, lines, idx, raised>>

\* Lines 107-113: communicate(timeout=30) raises TimeoutExpired, the
\* process still running: kill, the log entry, progress at phase_end and
\* the rows parsed so far (none) returned.
StreamTimeout ==
    /\ pc = "stream_comm"
    /\ proc \in {"running", "hung"}
    /\ proc' = "killed"
    /\ logs' = HealthLogAppend(logs, "winget scan timed out.")
    /\ appended' = Append(appended, "winget scan timed out.")
    /\ completed' = phase.end
    /\ ret' = rows
    /\ pc' = "stream_returned"
    /\ UNCHANGED <<extVars, hcVars, ctlVars, returncode, written, pipe, total, liveVars, phase,
                   loopVars, raised>>

\* Lines 106, 115: communicate returns the whole output of the exited
\* process; the loop will split it into lines.
StreamCommunicate ==
    /\ pc = "stream_comm"
    /\ proc = "exited"
    /\ lines' = SplitLines(TextOf(pipe))
    /\ idx' = 1
    /\ pipe' = <<>>
    /\ pc' = "stream_loop"
    /\ reaped' = TRUE
    /\ UNCHANGED <<dispVars, cmdVars, fileVars, hcVars, ctlVars, proc, returncode, written, logVars, barVars,
                   liveVars, phase, header_seen, sep_seen, current_pct, rows,
                   outVars>>

\* StreamBranch with the lines before header and separator logged like the
\* lines of fewer than four columns after them.
StreamBranchLogsNoise(line, hs, ss) ==
    LET l == RStrip(line)
        parts == SplitCols(Strip(l))
    IN  IF l = "" THEN "blank"
        ELSE IF MatchHeader(l) THEN "header"
        ELSE IF hs /\ MatchSeparator(l) THEN "separator"
        ELSE IF ~hs \/ ~ss THEN "other"
        ELSE IF Len(parts) >= 4
             THEN (IF StartsWith(Lower(parts[2]), "no ")
                      \/ StartsWith(Lower(parts[1]), "no ")
                   THEN "sentinel" ELSE "row")
        ELSE "other"

\* What one pass of the loop of lines 115-142 does with a line: which flags
\* it sets, the row it appends, the log entry it appends, whether it bumps.
\* A branch is "blank", "header", "separator", "noise", "sentinel", "row" or
\* "other".
StreamBranch(line, hs, ss) ==
    LET l == RStrip(line)
        parts == SplitCols(Strip(l))
    IN  IF l = "" THEN "blank"
        ELSE IF MatchHeader(l) THEN "header"
        ELSE IF hs /\ MatchSeparator(l) THEN "separator"
        ELSE IF ~hs \/ ~ss THEN "noise"
        ELSE IF Len(parts) >= 4
             THEN (IF StartsWith(Lower(parts[2]), "no ")
                      \/ StartsWith(Lower(parts[1]), "no ")
                   THEN "sentinel" ELSE "row")
        ELSE "other"

\* app = {"Id": pid, "Name": name, "Version": ver, "Available": avail}
StreamApp(line) ==
    LET parts == SplitCols(Strip(RStrip(line)))
    IN  [Id |-> parts[2], Name |-> parts[1], Version |-> parts[3], Available |-> parts[4]]

\* f"Found: {name} ({pid}) {ver or '?'} -> {avail}"
FoundMessage(app) ==
    "Found: " \o app.Name \o " (" \o app.Id \o ") "
    \o (IF app.Version # "" THEN app.Version ELSE "?") \o " -> " \o app.Available

\* Lines 115-142: one pass of the loop over the lines.
StreamLine ==
    /\ pc = "stream_loop"
    /\ idx <= Len(lines)
    /\ LET line == lines[idx]
           b == StreamBranch(line, header_seen, sep_seen)
           bumped == b \notin {"header", "separator"}
           entry == IF b = "row" THEN FoundMessage(StreamApp(line)) ELSE RStrip(line)
       IN  /\ header_seen' = (header_seen \/ b = "header")
           /\ sep_seen' = IF b = "header" THEN FALSE
                          ELSE IF b = "separator" THEN TRUE ELSE sep_seen
           /\ rows' = IF b = "row" THEN Append(rows, StreamApp(line)) ELSE rows
           /\ IF b \in {"row", "other"}
              THEN /\ logs' = HealthLogAppend(logs, entry)
                   /\ appended' = Append(appended, entry)
              ELSE UNCHANGED logVars
           /\ current_pct' = IF bumped THEN Bump(current_pct, phase) ELSE current_pct
           /\ completed' = IF bumped THEN Bump(current_pct, phase) ELSE completed
    /\ idx' = idx + 1
    /\ UNCHANGED <<extVars, hcVars, ctlVars, pc, procVars, total, liveVars, phase, lines, outVars>>

\* Lines 144-145: the end of the loop: progress at phase_end, return apps.
StreamFinish ==
    /\ pc = "stream_loop"
    /\ idx > Len(lines)
    /\ completed' = phase.end
    /\ ret' = rows
    /\ pc' = "stream_returned"
    /\ UNCHANGED <<extVars, hcVars, ctlVars, procVars, logVars, total, liveVars, phase,
                   loopVars, raised>>

\* Lines 265-268: apps = the rows returned, and the log entry of the count;
\* the with block of the Live display ends here, which refreshes it a last
\* time: layout["logs"] holds logs[-20:].
HCAfterApps ==
    /\ pc = "stream_returned"
    /\ LET s == "App scan complete. " \o ToString(Len(ret)) \o " update(s) detected."
       IN  /\ logs' = HealthLogAppend(logs, s)
           /\ appended' = Append(appended, s)
    /\ pc' = "hc_windows"
    /\ live' = FALSE
    /\ shown' = [completed |-> completed, logs |-> LastN(logs', HealthLogCap)]
    /\ UNCHANGED <<waitVars, cmdVars, fileVars, hcVars, ctlVars, procVars, barVars, liveVars, phase, loopVars, outVars>>

\* Lines 270-277: the Windows updates phase is skipped; progress set to 80.
HCSkipWindows ==
    /\ pc = "hc_windows"
    /\ logs' = HealthLogAppend(logs, "Windows updates disabled; skipping PowerShell scan.")
    /\ appended' = Append(appended, "Windows updates disabled; skipping PowerShell scan.")
    /\ completed' = WindowsPhaseEnd
    /\ pc' = "hc_junk"
    /\ UNCHANGED <<extVars, hcVars, ctlVars, procVars, total, liveVars, phase, loopVars, outVars>>

\* Lines 279-282: the junk phase begins with a log entry.
HCJunkStart ==
    /\ pc = "hc_junk"
    /\ logs' = Append(logs, "Scanning junk files...")
    /\ appended' = Append(appended, "Scanning junk files...")
    /\ pc' = "hc_junk_size"
    /\ UNCHANGED <<extVars, hcVars, ctlVars, procVars, barVars, liveVars, phase, loopVars, outVars>>

\* Lines 283-287: calc_size, its log entry, progress set to 100.
HCJunkSize ==
    /\ pc = "hc_junk_size"
    /\ \E n \in JunkSizes :
          /\ junk_size' = n
          /\ logs' = HealthLogAppend(logs, "Junk size detected: " \o human_bytes(n))
          /\ appended' = Append(appended, "Junk size detected: " \o human_bytes(n))
    /\ completed' = FP(100)
    /\ pc' = "hc_complete"
    /\ UNCHANGED <<choice, extVars, ctlVars, procVars, total, liveVars, phase, loopVars,
                   outVars>>

\* Lines 288-289: the last log entry of the scan.
HCScanComplete ==
    /\ pc = "hc_complete"
    /\ logs' = Append(logs, "Scan complete.")
    /\ appended' = Append(appended, "Scan complete.")
    /\ pc' = "hc_summary"
    /\ UNCHANGED <<extVars, hcVars, ctlVars, procVars, barVars, liveVars, phase, loopVars, outVars>>

\* FixAllChosen taking every answer but "n" for a yes.
FixAllChosenUnlessNo(c) == c # "n"

\* Line 297: if choice != "y": return
FixAllChosen(c) == c = "y"

\* Lines 296-299: the Fix All prompt; any answer but "y" (stripped, in
\* lower case) ends health_check with no change applied.
HCPrompt ==
    /\ pc = "hc_summary"
    /\ \E a \in FixAnswers :
          /\ choice' = Lower(Strip(a))
          /\ pc' = IF FixAllChosen(Lower(Strip(a))) THEN "hc_fix_apps" ELSE "hc_returned"
    /\ UNCHANGED <<junk_size, extVars, ctlVars, procVars, logVars, barVars, liveVars,
                   phase, loopVars, outVars>>

\* Lines 301-303: if apps: winget_upgrade([a["Id"] for a in apps]); ret
\* still holds apps. winget_upgrade runs one session of run_with_live_output
\* for every identifier, as in the runs of winget_upgrade itself; here
\* the sessions are recorded.
HCFixApps ==
    /\ pc = "hc_fix_apps"
    /\ ran' = IF ret # <<>>
              THEN ran \o [i \in 1..Len(ret) |-> UpgradeTitle(ret[i].Id)]
              ELSE ran
    /\ pc' = "hc_fix_junk"
    /\ UNCHANGED <<pid, waitVars, dispVars, fileVars, hcVars, ctlVars, procVars,
                   logVars, barVars, liveVars, phase, loopVars, outVars>>

\* Lines 305-313: os_items is empty; if junk_size > 0: clean_junk().
HCFixJunk ==
    /\ pc = "hc_fix_junk"
    /\ ran' = IF junk_size > 0 THEN Append(ran, "clean_junk") ELSE ran
    /\ pc' = "hc_returned"
    /\ UNCHANGED <<pid, waitVars, dispVars, fileVars, hcVars, ctlVars, procVars,
                   logVars, barVars, liveVars, phase, loopVars, outVars>>

(***************************************************************************)
(* _scan_windows_updates_quiet (part3_health.py)                           *)
(*                                                                         *)
(* No code of the repository calls it: health_check skips the phase. It    *)
(* is entered here with a task of 100, a phase range and the progress at   *)
(* the start of the range: 40..80 as health_check describes the phase, or  *)
(* a range with start > end.                                               *)
(***************************************************************************)

\* The nominal number of updates: the divisor of the step per update.
ScanEvents == 40
\* for u in items[:50]
ScanShown == 50

ScanEnter ==
    /\ pc = "scan_start"
    /\ logs' = <<>>
    /\ appended' = <<>>
    /\ total' = FP(100)
    /\ phase' = arg.phase
    /\ completed' = arg.phase.start
    /\ pc' = "scan_spawn"
    /\ UNCHANGED <<extVars, hcVars, ctlVars, procVars, liveVars, loopVars, outVars>>

\* Lines 172-184: Popen, or FileNotFoundError: progress at phase_end, [].
ScanSpawn ==
    /\ pc = "scan_spawn"
    /\ IF Session.found
       THEN /\ proc' = "running"
            /\ logs' = Append(logs, "Checking Windows updates...")
            /\ appended' = Append(appended, "Checking Windows updates...")
            /\ completed' = completed
            /\ pc' = "scan_comm"
            /\ ret' = ret
       ELSE /\ proc' = "none"
            /\ logs' = Append(logs, "PowerShell not found.")
            /\ appended' = Append(appended, "PowerShell not found.")
            /\ completed' = phase.end
            /\ pc' = "scan_returned"
            /\ ret' = <<>>
    /\ written' = 0
    /\ pipe' = <<>>
    /\ reaped' = (IF Session.found THEN FALSE ELSE reaped)
    /\ UNCHANGED <<dispVars, cmdVars, fileVars, hcVars, ctlVars, returncode, total, liveVars, phase, loopVars, raised>>

\* Lines 190-196: TimeoutExpired after 40 s: kill, progress at phase_end, [].
ScanTimeout ==
    /\ pc = "scan_comm"
    /\ proc \in {"running", "hung"}
    /\ proc' = "killed"
    /\ logs' = HealthLogAppend(logs, "Windows update scan timed out.")
    /\ appended' = Append(appended, "Windows update scan timed out.")
    /\ completed' = phase.end
    /\ ret' = <<>>
    /\ pc' = "scan_returned"
    /\ UNCHANGED <<extVars, hcVars, ctlVars, returncode, written, pipe, total, liveVars, phase,
                   loopVars, raised>>

ScanItem(it) ==
    [Title |-> GetDefault(it, "Title", Str("")), KB |-> Get(it, "KB"),
     UpdateId |-> GetDefault(it, "UpdateId", Str("")),
     Categories |-> CategoryList(GetDefault(it, "Categories", List(<<>>)))]

\* The items appended before the loop ends or it.get raises on a value that
\* is no dict.
RECURSIVE ScanItemsUntilError(_)
ScanItemsUntilError(items) ==
    IF items = <<>> \/ Head(items).k # "dict" THEN <<>>
    ELSE <<ScanItem(Head(items))>> \o ScanItemsUntilError(Tail(items))

\* Lines 197-213: the try block over the stripped output: the items built
\* and whether an exception was caught.
ScanParse(out) ==
    LET v == IF StripNL(out) = "" THEN List(<<>>) ELSE json_loads(out)
        j == IF v.k = "dict" THEN List(<<v>>) ELSE v
    IN  IF v = Malformed THEN [items |-> <<>>, err |-> TRUE]
        ELSE IF ~Truthy(j) THEN [items |-> <<>>, err |-> FALSE]
        ELSE IF j.k = "list"
             THEN [items |-> ScanItemsUntilError(j.items), err |-> ~IterableOfDicts(j)]
        ELSE [items |-> <<>>, err |-> TRUE]

\* Lines 189, 197-213, 225-227: communicate returns the output of the
\* exited process; it is parsed; a parse error and "no updates" are logged.
ScanCommunicate ==
    /\ pc = "scan_comm"
    /\ proc = "exited"
    /\ LET p == ScanParse(TextOf(pipe))
           l1 == IF p.err THEN <<"Windows update parse error">> ELSE <<>>
           l2 == IF p.items = <<>> THEN <<"No Windows updates reported.">> ELSE <<>>
       IN  /\ rows' = p.items
           /\ lines' = SubSeq(p.items, 1, Min(Len(p.items), ScanShown))
           /\ logs' = logs \o l1 \o l2
           /\ appended' = appended \o l1 \o l2
    /\ idx' = 1
    /\ pipe' = <<>>
    /\ pc' = "scan_loop"
    /\ reaped' = TRUE
    /\ UNCHANGED <<dispVars, cmdVars, fileVars, hcVars, ctlVars, proc, returncode, written, barVars, liveVars,
                   phase, header_seen, sep_seen, current_pct, outVars>>

\* (u.get("Title") or "").strip()
TitleText(u) == IF Truthy(u.Title) THEN StripNL(u.Title.s) ELSE ""

\* Lines 216-224: one update of items[:50]: its log entry and the step
\* from the task's completed value.
ScanShow ==
    /\ pc = "scan_loop"
    /\ idx <= Len(lines)
    /\ LET s == "Windows Update: " \o TitleText(lines[idx])
       IN  /\ logs' = HealthLogAppend(logs, s)
           /\ appended' = Append(appended, s)
    /\ completed' = Min(phase.end, completed + (phase.end - phase.start) \div ScanEvents)
    /\ idx' = idx + 1
    /\ UNCHANGED <<extVars, hcVars, ctlVars, pc, procVars, total, liveVars, phase, lines,
                   header_seen, sep_seen, current_pct, rows, outVars>>

\* Lines 229-230: progress at phase_end, return items.
ScanFinish ==
    /\ pc = "scan_loop"
    /\ idx > Len(lines)
    /\ completed' = phase.end
    /\ ret' = rows
    /\ pc' = "scan_returned"
    /\ UNCHANGED <<extVars, hcVars, ctlVars, procVars, logVars, total, liveVars, phase,
                   loopVars, raised>>

(***************************************************************************)
(* _ps_get_updates and the winget listings (part2_helpers.py)              *)
(***************************************************************************)

\* ensure_pswindowsupdate_installed returned: (rc == 0) and ("OK" in out);
\* when false _ps_get_updates returns [], else it runs its own session.
PsAfterEnsure ==
    /\ mode = "ps_updates"
    /\ stage = 1
    /\ pc = "live_done"
    /\ IF ret.rc = 0 /\ Contains(ret.out, "OK")
       THEN /\ stage' = 2
            /\ pc' = "live_start"
            /\ ret' = ret
       ELSE /\ stage' = stage
            /\ pc' = "ps_returned"
            /\ ret' = <<>>
    /\ UNCHANGED <<extVars, hcVars, mode, arg, procVars, logVars, barVars, liveVars, phase,
                   loopVars, raised>>

\* Lines 378-390: the session returned (rc, out); the updates parsed.
PsParse ==
    /\ mode = "ps_updates"
    /\ stage = 2
    /\ pc = "live_done"
    /\ LET r == PsParseUpdates(ret.rc, ret.out)
       IN  /\ ret' = r.rows
           /\ raised' = r.raised
    /\ pc' = "ps_returned"
    /\ UNCHANGED <<extVars, hcVars, ctlVars, procVars, logVars, barVars, liveVars, phase, loopVars>>

ListUpgrades ==
    /\ pc = "upgrades_start"
    /\ LET r == winget_list_upgrades(arg.ready, arg.help_out, arg.json_out, arg.table_out)
       IN  /\ ret' = r.rows
           /\ raised' = r.raised
    /\ pc' = "upgrades_returned"
    /\ UNCHANGED <<extVars, hcVars, ctlVars, procVars, logVars, barVars, liveVars, phase, loopVars>>

ListInstalled ==
    /\ pc = "installed_start"
    /\ LET r == winget_list_installed(arg.ready, arg.table_out)
       IN  /\ ret' = r.rows
           /\ raised' = r.raised
    /\ pc' = "installed_returned"
    /\ UNCHANGED <<extVars, hcVars, ctlVars, procVars, logVars, barVars, liveVars, phase, loopVars>>

(***************************************************************************)
(* winget_upgrade and winget_uninstall_fuzzy (part2_helpers.py)            *)
(***************************************************************************)

\* UpgradeNextIndex repeating an identifier whose session failed.
UpgradeNextIndexRetry(i, rc) == IF rc # 0 THEN i ELSE i + 1

\* for pid in ids: the identifier after the i-th, whatever exit code rc its
\* session returned (the return value is not read).
UpgradeNextIndex(i, rc) == i + 1

\* Lines 199-209: the loop of winget_upgrade takes the first or the next
\* identifier and calls run_with_live_output for it, or ends.
UpgradeLoop ==
    /\ mode = "upgrade"
    /\ pc \in {"upgrade_start", "live_done"}
    /\ LET i == IF pc = "upgrade_start" THEN 1 ELSE UpgradeNextIndex(stage, ret.rc)
       IN  IF i <= Len(arg.ids)
           THEN /\ stage' = i
                /\ pid' = arg.ids[i]
                /\ pc' = "live_start"
                /\ ret' = ret
           ELSE /\ stage' = stage
                /\ pid' = pid
                /\ pc' = "upgrade_returned"
                /\ ret' = None
    /\ UNCHANGED <<ran, waitVars, dispVars, fileVars, hcVars, mode, arg, procVars,
                   logVars, barVars, liveVars, phase, loopVars, raised>>

\* The decimal digits, and a character that str.isdigit() accepts and
\* int() does not: the superscript two.
Digits == "0123456789"
OtherDigits == {"²"}

\* str.isdigit(): not empty and every character a digit.
isdigit(s) ==
    /\ s # ""
    /\ \A i \in 1..Len(s) :
          Contains(Digits, SubSeq(s, i, i)) \/ SubSeq(s, i, i) \in OtherDigits

\* int(s) of a text for which isdigit holds: ValueError unless every
\* character is a decimal digit.
IntRaises(s) == \E i \in 1..Len(s) : SubSeq(s, i, i) \in OtherDigits

DigitValue(c) == CHOOSE d \in 0..9 : SubSeq(Digits, d + 1, d + 1) = c

RECURSIVE int(_)
int(s) ==
    IF s = "" THEN 0
    ELSE 10 * int(SubSeq(s, 1, Len(s) - 1)) + DigitValue(SubSeq(s, Len(s), Len(s)))

\* [a for a in apps if query.lower() in a.name.lower()]
NameMatches(apps, query) ==
    LET Match(a) == Contains(Lower(a.name.s), Lower(query))
    IN  SelectSeq(apps, Match)

\* Lines 224-241 of winget_uninstall_fuzzy, apps not being empty: the
\* identifier to uninstall, none, or the exception of int(sel).
UninstallChoice(apps, query, answer) ==
    LET exact == {i \in 1..Len(apps) : Lower(apps[i].id.s) = Lower(query)}
        first == CHOOSE i \in exact : \A j \in exact : i <= j
        matches == NameMatches(apps, query)
        sel == Strip(answer)
    IN  IF exact # {} THEN [act |-> "uninstall", id |-> apps[first].id.s]
        ELSE IF Len(matches) = 1 THEN [act |-> "uninstall", id |-> matches[1].id.s]
        ELSE IF Len(matches) > 1 /\ isdigit(sel)
             THEN (IF IntRaises(sel) THEN [act |-> "raise", id |-> ""]
                   ELSE IF 1 <= int(sel) /\ int(sel) <= Len(matches)
                        THEN [act |-> "uninstall", id |-> matches[int(sel)].id.s]
                   ELSE [act |-> "none", id |-> ""])
        ELSE [act |-> "none", id |-> ""]

\* Lines 219-242: winget_uninstall_fuzzy up to its call of winget_uninstall,
\* its return of None, or the exception that leaves it.
UninstallFuzzy ==
    /\ pc = "uninstall_start"
    /\ LET r == winget_list_installed(arg.ready, arg.table_out)
           c == IF r.rows = <<>> THEN [act |-> "none", id |-> ""]
                ELSE UninstallChoice(r.rows, arg.query, arg.sel)
       IN  IF r.raised \/ c.act = "raise"
           THEN /\ raised' = TRUE
                /\ pc' = "uninstall_raised"
                /\ UNCHANGED <<pid, ret>>
           ELSE IF c.act = "uninstall"
           THEN /\ pid' = c.id
                /\ pc' = "live_start"
                /\ UNCHANGED <<raised, ret>>
           ELSE /\ ret' = None
                /\ pc' = "uninstall_returned"
                /\ UNCHANGED <<pid, raised>>
    /\ UNCHANGED <<ran, waitVars, dispVars, fileVars, hcVars, ctlVars, procVars,
                   logVars, barVars, liveVars, phase, loopVars>>

\* winget_uninstall returned: return a.id.
UninstallReturn ==
    /\ mode = "uninstall"
    /\ pc = "live_done"
    /\ ret' = Str(pid)
    /\ pc' = "uninstall_returned"
    /\ UNCHANGED <<extVars, hcVars, ctlVars, procVars, logVars, barVars, liveVars,
                   phase, loopVars, raised>>

(***************************************************************************)
(* log and tail_log (part1_bootstrap.py)                                   *)
(***************************************************************************)

\* f"{datetime.now():%Y-%m-%d %H:%M:%S} | {msg}"
LogLine(stamp, msg) == stamp \o " | " \o msg

\* log(msg): the line appended to the file, which is created if it is
\* missing; when open or write raises (io_ok false) the exception is
\* swallowed and the file is as it was.
log(file, stamp, msg, io_ok) ==
    IF io_ok THEN [exists |-> TRUE, text |-> file.text \o LogLine(stamp, msg) \o "\n"]
    ELSE file

\* SliceLast returning the first n lines.
SliceFirst(ls, n) == SubSeq(ls, 1, Min(n, Len(ls)))

\* lines[-n:] for n >= 0: the slice starts at index -n from the end, which
\* for n = 0 is index 0, the start of the list.
SliceLast(ls, n) ==
    LET from == IF n = 0 THEN 0 ELSE IF n > Len(ls) THEN 0 ELSE Len(ls) - n
    IN  SubSeq(ls, from + 1, Len(ls))

\* tail_log(n): "" when the file is missing or cannot be read.
tail_log(file, n, readable) ==
    IF ~file.exists \/ ~readable THEN ""
    ELSE JoinLines(SliceLast(SplitLines(file.text), n))

\* A call of log for the next message of the run.
Log ==
    /\ pc = "log_call"
    /\ stage <= Len(arg.msgs)
    /\ log_file' = log(log_file, arg.clock, arg.msgs[stage], arg.io[stage])
    /\ stage' = stage + 1
    /\ UNCHANGED <<waitVars, dispVars, cmdVars, hcVars, mode, arg, pc, procVars,
                   logVars, barVars, liveVars, phase, loopVars, outVars>>

\* The call of tail_log after them.
TailLog ==
    /\ pc = "log_call"
    /\ stage > Len(arg.msgs)
    /\ ret' = Str(tail_log(log_file, arg.n, arg.readable))
    /\ pc' = "log_returned"
    /\ UNCHANGED <<extVars, hcVars, ctlVars, procVars, logVars, barVars, liveVars,
                   phase, loopVars, raised>>

(***************************************************************************)
(* The runs: entry points, arguments and outputs                           *)
(***************************************************************************)

\* The most rows of a winget table.
MaxRows == 52

TableHeader == "Name  Id  Version  Available  Source"
TableSeparator == "------------------------------------"
RowLine(i) ==
    "App " \o ToString(i) \o "  Vendor.App" \o ToString(i) \o "  1." \o ToString(i) \o "  2.0"

\* winget upgrade: the header, the separator, k rows and the count.
CleanTable(k) ==
    <<TableHeader, TableSeparator>> \o [i \in 1..k |-> RowLine(i)]
    \o <<ToString(k) \o " upgrades available.">>

\* A table among other lines: lines before the header and between the
\* header and the separator (four columns, fewer, blank), rows, lines whose
\* first or second column starts with "No " or is "No", a line of three
\* columns, and
\* a second header whose separator comes one line late.
NoisyTable ==
    <<"Loading  package  index  now", "", "   - ", TableHeader,
      "Between  Header.Sep  0.1  0.2", TableSeparator, RowLine(1),
      "No updates  Skip.Me  1.0  2.0", "Odd  no more  1.0  2.0",
      "No  Lone.No  1.0  2.0",
      "Partial  Only.Three  1.0", "  ",
      "The following packages require explicit targeting:",
      "Name  Id  Version  Available", "Late  After.Header  3.0  4.0",
      "----", RowLine(2), "  Inset App  Inset.App  5.0  6.0 \t">>

\* The empty-state message of the tool.
NoneTable == <<"No installed package found matching input criteria.">>

\* Rows and no header.
BareRows == <<RowLine(1), "No name  Bare.Id  1.0  2.0">>

WingetOutputs == {CleanTable(MaxRows), NoisyTable, NoneTable, BareRows}

TableTexts ==
    {TextOf(CleanTable(2)), TextOf(NoisyTable), TextOf(NoneTable), TextOf(BareRows), ""}

UpgradeDocs ==
    {DocEmptyArray, DocNull, DocTruncated, DocUpgOne, DocUpgAlias, DocUpgMissing,
     DocUpgAllMissing, DocUpgObject, DocUpgStrings}

UpdateOutputs ==
    {SplitLines(DocUpdTwo), SplitLines(DocUpdObject), SplitLines(DocEmptyArray),
     SplitLines(DocNull), SplitLines(DocUpgStrings), SplitLines(DocUpdBare),
     CleanTable(1), <<"Get-WindowsUpdate : access denied">>, <<>>,
     DocUpdManyLines(MaxUpdates)}

HelpTexts == {"usage: winget upgrade [--output <format>]", "usage: winget upgrade"}

Modes ==
    {"live", "health", "scan", "upgrades", "installed", "ps_updates", "upgrade",
     "uninstall", "log"}

LiveSessions ==
    {[title |-> t[1], soft_total |-> t[2], exe |-> t[3], found |-> f] :
        t \in {<<"Power plan: Balanced", 100, "powercfg">>,
               <<"Preparing PSWindowsUpdate", 40, "powershell">>},
        f \in BOOLEAN}

EnsureSession(f) ==
    [title |-> "Preparing PSWindowsUpdate", soft_total |-> 40,
     exe |-> "powershell", found |-> f]
UpdatesSession(f) ==
    [title |-> "Scanning Windows Updates", soft_total |-> 80,
     exe |-> "powershell", found |-> f]

\* The phase_start and phase_end _scan_windows_updates_quiet is called
\* with: the range of the Windows updates phase, and the same range with
\* its ends exchanged (start > end).
ScanRanges == {[start |-> FP(40), end |-> FP(80)], [start |-> FP(80), end |-> FP(40)]}

\* The lists of identifiers winget_upgrade is called with.
IdLists == {<<>>, <<"A.App">>, <<"A.App", "B.App", "C.App">>, <<"A.App", "A.App">>}

\* winget list: two names that hold "git", one of them with the id "git".
InstalledTable ==
    <<"Name  Id  Version", "------------------", "Git Tools  git  1.0",
      "Git  Other.Git  2.0", "Editor  Vendor.Editor  3.1">>

\* What the user types at a prompt.
Answers == {"", "1", " 2 ", "3", "y", "Y ", "n", "²"}

Queries == {"GIT", "git t", "edit", "zzz", "OTHER.git", "it", ""}

\* The most lines asked of tail_log.
MaxTail == 3

\* The log file before the run: missing, empty, three lines, and a text
\* that does not end with a line end.
LogFiles ==
    {[exists |-> FALSE, text |-> ""], [exists |-> TRUE, text |-> ""],
     [exists |-> TRUE, text |-> "old 1\nold 2\nold 3\n"],
     [exists |-> TRUE, text |-> "cut"]}

\* The messages logged in a run, one after the other.
LogMessages == {<<"Test log entry">>, <<"">>, <<"first", "Test log entry">>}

Args(m) ==
    CASE m = "live" ->
            {[session |-> <<se>>, script |-> <<Pattern(p)>>] :
                se \in LiveSessions, p \in {"plain", "ragged"}}
      [] m = "health" ->
            {[session |-> <<[exe |-> "winget", found |-> f]>>,
              script |-> <<Lines(o)>>] :
                f \in BOOLEAN, o \in WingetOutputs}
      [] m = "scan" ->
            {[session |-> <<[exe |-> "powershell", found |-> f]>>,
              script |-> <<Lines(o)>>, phase |-> ph] :
                f \in BOOLEAN, o \in UpdateOutputs, ph \in ScanRanges}
      [] m = "upgrades" ->
            {[ready |-> r, help_out |-> h, json_out |-> j, table_out |-> t] :
                r \in ReadyOutcomes, h \in HelpTexts, j \in UpgradeDocs, t \in TableTexts}
      [] m = "installed" ->
            {[ready |-> r, table_out |-> t] : r \in ReadyOutcomes, t \in TableTexts}
      [] m = "upgrade" ->
            {[ids |-> ids, found |-> f,
              script |-> [i \in 1..Len(ids) |-> Lines(<<"Found " \o ids[i], "Done">>)]] :
                ids \in IdLists, f \in BOOLEAN}
      [] m = "uninstall" ->
            {[ready |-> "ok", table_out |-> t, query |-> q, sel |-> a, found |-> f,
              script |-> <<Lines(<<"Successfully uninstalled">>)>>] :
                t \in {TextOf(InstalledTable), TextOf(NoneTable)}, q \in Queries,
                a \in Answers, f \in BOOLEAN}
            \cup
            {[ready |-> r, table_out |-> "", query |-> "git", sel |-> "", found |-> TRUE,
              script |-> <<Lines(<<>>)>>] : r \in ReadyOutcomes}
      [] m = "log" ->
            {[file |-> f, msgs |-> ms, io |-> io, n |-> n, readable |-> r,
              clock |-> "2026-01-01 12:00:00"] :
                f \in LogFiles, ms \in LogMessages, io \in [1..2 -> BOOLEAN],
                n \in 0..MaxTail, r \in BOOLEAN}
      [] m = "ps_updates" ->
            {[session |-> <<EnsureSession(f), UpdatesSession(f)>>,
              script |-> <<Lines(e), Lines(o)>>] :
                f \in BOOLEAN, e \in {<<"OK">>, <<"Install-Module : failed">>},
                o \in UpdateOutputs}

EntryPc(m) ==
    CASE m = "live" -> "live_start"
      [] m = "health" -> "hc_deps"
      [] m = "scan" -> "scan_start"
      [] m = "upgrades" -> "upgrades_start"
      [] m = "installed" -> "installed_start"
      [] m = "ps_updates" -> "live_start"
      [] m = "upgrade" -> "upgrade_start"
      [] m = "uninstall" -> "uninstall_start"
      [] m = "log" -> "log_call"

Init ==
    /\ mode \in Modes
    /\ arg \in Args(mode)
    /\ stage = 1
    /\ pc = EntryPc(mode)
    /\ proc = "none"
    /\ returncode = 0
    /\ written = 0
    /\ pipe = <<>>
    /\ logs = <<>>
    /\ appended = <<>>
    /\ completed = 0
    /\ total = 0
    /\ combined = <<>>
    /\ tick = 0
    /\ phase = [start |-> 0, end |-> 0]
    /\ lines = <<>>
    /\ idx = 1
    /\ header_seen = FALSE
    /\ sep_seen = FALSE
    /\ current_pct = 0
    /\ rows = <<>>
    /\ junk_size = 0
    /\ ret = <<>>
    /\ raised = FALSE
    /\ reaped = FALSE
    /\ live = FALSE
    /\ shown = [completed |-> 0, logs |-> <<>>]
    /\ ran = <<>>
    /\ pid = ""
    /\ choice = ""
    /\ log_file = IF mode = "log" THEN arg.file ELSE [exists |-> FALSE, text |-> ""]

Next ==
    \/ ProcWrite \/ ProcExit \/ ProcHang
    \/ LiveStart \/ LiveSpawn \/ LiveReadLine \/ LiveReadEOF \/ LiveFinish \/ LiveReturn
    \/ HCEnsureDeps \/ HCStart \/ StreamSpawn \/ StreamTimeout \/ StreamCommunicate \/ StreamLine
    \/ StreamFinish \/ HCAfterApps \/ HCSkipWindows \/ HCJunkStart \/ HCJunkSize
    \/ HCScanComplete
    \/ ScanEnter \/ ScanSpawn \/ ScanTimeout \/ ScanCommunicate \/ ScanShow \/ ScanFinish
    \/ PsAfterEnsure \/ PsParse \/ ListUpgrades \/ ListInstalled
    \/ UpgradeLoop \/ UninstallFuzzy \/ UninstallReturn
    \/ HCPrompt \/ HCFixApps \/ HCFixJunk
    \/ Log \/ TailLog

Spec == Init /\ [][Next]_vars

(***************************************************************************)
(* Properties                                                              *)
(***************************************************************************)

LivePcs == {"live_spawn", "live_loop", "live_wait", "live_return", "live_done"}
StreamPcs == {"stream_spawn", "stream_comm", "stream_loop", "stream_returned"}
ScanPcs == {"scan_spawn", "scan_comm", "scan_loop", "scan_returned"}

\* The steps that create a progress task (a new bar at its start).
CreatesTask == pc \in {"live_start", "hc_start", "scan_start"}

\* The progress value lies in the range of the session that drives it.
ProgressInRange ==
    /\ pc \in LivePcs => 0 <= completed /\ completed <= FP(Session.soft_total)
    /\ (pc \in StreamPcs \cup ScanPcs) /\ phase.start <= phase.end
          => phase.start <= completed /\ completed <= phase.end

\* C1: in every live session the progress value never decreases from one
\* update to the next and never leaves its range: [0, soft_total] for the
\* bar of run_with_live_output, [phase_start, phase_end] for the progress
\* driven by _stream_winget_upgrades and _scan_windows_updates_quiet
\* (phase_start <= phase_end), whatever the number and the content of the
\* output lines.
C1_ProgressMonotoneInRange ==
    /\ []ProgressInRange
    /\ [][~CreatesTask /\ phase.start <= phase.end => completed' >= completed]_vars

\* More lines than soft_total were read and the bar stayed at soft_total.
C1_Witness ==
    /\ mode = "live"
    /\ pc = "live_loop"
    /\ tick > Session.soft_total
    /\ completed = FP(Session.soft_total)

\* C2: a phase finishes with progress exactly at the end of its range on
\* every exit path: when _stream_winget_upgrades has returned the progress
\* value is phase_end, and when run_with_live_output returns after the
\* process exited the bar is at soft_total.
C2_PhaseEndsAtEnd ==
    /\ pc = "stream_returned" => completed = phase.end
    /\ pc = "live_done" /\ proc = "exited" => completed = FP(Session.soft_total)

\* C3: the log list never holds more entries than its capacity: at most 40
\* in run_with_live_output, at most 20 during a health check.
C3_LogWithinCapacity ==
    /\ mode \in {"live", "ps_updates"} => Len(logs) <= LiveLogCap
    /\ mode = "health" => Len(logs) <= HealthLogCap

\* The last c entries of the history h, in order.
IsLastOf(lg, h, c) ==
    /\ Len(lg) = c
    /\ \A i \in 1..c : lg[i] = h[Len(h) - c + i]

\* C4: once more than c entries were appended to a rolling log of capacity
\* c, the log holds exactly the last c of them in their order: c = 40 in
\* run_with_live_output, the title being the first entry appended, and
\* c = 20 for the log of the health check.
C4_LogIsLastEntries ==
    /\ pc \in LivePcs /\ 1 + Len(combined) > LiveLogCap
          => IsLastOf(logs, <<Session.title>> \o combined, LiveLogCap)
    /\ mode = "health" /\ Len(appended) > HealthLogCap
          => IsLastOf(logs, appended, HealthLogCap)

\* The part of C4 that holds: run_with_live_output, and the health check's
\* log until _stream_winget_upgrades has returned.
C4_HoldsInSessions ==
    /\ pc \in LivePcs /\ 1 + Len(combined) > LiveLogCap
          => IsLastOf(logs, <<Session.title>> \o combined, LiveLogCap)
    /\ pc \in StreamPcs /\ Len(appended) > HealthLogCap
          => IsLastOf(logs, appended, HealthLogCap)

\* The columns of a table line.
ColumnsOf(line) == SplitCols(Strip(line))

\* Line i of ls comes after a header line and after a separator line that
\* follows the last header before it.
AfterHeaderAndSeparator(ls, i) ==
    \E h \in 1..(i - 1) :
        /\ MatchHeader(ls[h])
        /\ \A g \in (h + 1)..(i - 1) : ~MatchHeader(ls[g])
        /\ \E d \in (h + 1)..(i - 1) : MatchSeparator(ls[d])

\* The row of this name and id was read from a line after header and separator.
RowFromTableBody(ls, name, id) ==
    \E i \in 1..Len(ls) :
        /\ Len(ColumnsOf(ls[i])) >= 2
        /\ ColumnsOf(ls[i])[1] = name
        /\ ColumnsOf(ls[i])[2] = id
        /\ AfterHeaderAndSeparator(ls, i)

\* winget_list_upgrades returned the rows of its table fallback.
UpgradesFromTable ==
    /\ mode = "upgrades"
    /\ pc = "upgrades_returned"
    /\ arg.ready = "ok"
    /\ ~Contains(arg.help_out, "--output")

InstalledFromTable ==
    /\ mode = "installed"
    /\ pc = "installed_returned"
    /\ arg.ready = "ok"

StreamReturned == mode = "health" /\ pc = "stream_returned" /\ proc = "exited"

\* C5: no table parser produces a row from a line that comes before the
\* header or between the header and its separator: every row returned by
\* _stream_winget_upgrades and by the table fallbacks of
\* winget_list_upgrades and winget_list_installed was read from a line
\* after a header line and a separator line.
C5_RowsOnlyAfterHeaderAndSeparator ==
    /\ UpgradesFromTable =>
          \A k \in 1..Len(ret) :
              RowFromTableBody(SplitLines(arg.table_out), ret[k].name.s, ret[k].id.s)
    /\ InstalledFromTable =>
          \A k \in 1..Len(ret) :
              RowFromTableBody(SplitLines(arg.table_out), ret[k].name.s, ret[k].id.s)
    /\ StreamReturned =>
          \A k \in 1..Len(ret) : RowFromTableBody(lines, ret[k].Name, ret[k].Id)

\* The part of C5 that holds: _stream_winget_upgrades.
C5_HoldsInStream ==
    StreamReturned =>
        \A k \in 1..Len(ret) : RowFromTableBody(lines, ret[k].Name, ret[k].Id)

\* A line of the loop of _stream_winget_upgrades that is no blank line, no
\* header and no separator.
StreamTextLine(l) ==
    l # "" /\ ~MatchHeader(l) /\ ~(header_seen /\ MatchSeparator(l))

\* The loop of _stream_winget_upgrades is at a line it skips as noise: the
\* header and the separator have not both been seen.
AtNoiseLine ==
    /\ pc = "stream_loop"
    /\ idx <= Len(lines)
    /\ StreamTextLine(RStrip(lines[idx]))
    /\ ~header_seen \/ ~sep_seen

C7_RowsHaveIdAndAvailable ==
    /\ mode = "upgrades" /\ pc = "upgrades_returned" /\ arg.ready = "ok"
          => /\ ~raised
             /\ \A k \in 1..Len(ret) :
                    /\ ret[k].id.k = "str" /\ ret[k].id.s # ""
                    /\ ret[k].available.k = "str" /\ ret[k].available.s # ""
    /\ mode = "health" /\ pc = "stream_returned"
          => /\ ~raised
             /\ \A k \in 1..Len(ret) : ret[k].Id # "" /\ ret[k].Available # ""

\* Of three JSON items, one without an available version and one with an
\* empty identifier, the one complete item was returned.
C7_Witness ==
    /\ mode = "upgrades"
    /\ pc = "upgrades_returned"
    /\ arg.ready = "ok"
    /\ Contains(arg.help_out, "--output")
    /\ arg.json_out = DocUpgMissing
    /\ Len(ret) = 1
    /\ ret[1].id = Str("F.App")

\* The first word of the column is "No".
LeadingNo(col) == Lower(col) = "no" \/ StartsWith(Lower(col), "no ")

\* C8: no table parser returns a row read from a line whose first column
\* starts with the word "No".
C8_NoSentinelRows ==
    /\ UpgradesFromTable \/ InstalledFromTable
          => \A k \in 1..Len(ret) : ~LeadingNo(ret[k].name.s)
    /\ StreamReturned => \A k \in 1..Len(ret) : ~LeadingNo(ret[k].Name)

\* The part of C8 that holds: _stream_winget_upgrades returns no row whose
\* first column starts with "No " (the word and a blank).
C8_HoldsInStream ==
    StreamReturned => \A k \in 1..Len(ret) : ~StartsWith(Lower(ret[k].Name), "no ")

\* winget_list_upgrades returned, the tool declaring the JSON output.
UpgradesJsonDeclared ==
    /\ mode = "upgrades"
    /\ pc = "upgrades_returned"
    /\ arg.ready = "ok"
    /\ Contains(arg.help_out, "--output")

\* _ps_get_updates returned after its own session, whose process exited 0.
PsSessionReturned ==
    /\ mode = "ps_updates"
    /\ pc = "ps_returned"
    /\ stage = 2
    /\ returncode = 0

\* What the session of _ps_get_updates captured.
PsOutput == JoinLines(combined)

\* _scan_windows_updates_quiet returned after communicate() returned.
ScanReturned == mode = "scan" /\ pc = "scan_returned" /\ proc = "exited"

\* What communicate() returned: the lines the process had printed.
ScanOutput == TextOf([i \in 1..written |-> arg.script[1].lines[i]])

\* The text holds a table: a line of four columns after header and separator.
HasTableRow(ls) ==
    \E i \in 1..Len(ls) :
        AfterHeaderAndSeparator(ls, i) /\ Len(ColumnsOf(ls[i])) >= 4

\* C9: when the JSON a command was asked for does not decode, the parser
\* does not raise and takes its rows from the table in the output:
\* winget_list_upgrades, _ps_get_updates and _scan_windows_updates_quiet.
C9_DecodeFailureFallsBackToTable ==
    /\ UpgradesJsonDeclared /\ json_loads(arg.json_out) = Malformed
          => ~raised /\ ret = UpgradeTableRows(SplitLines(arg.table_out))
    /\ PsSessionReturned /\ StripNL(PsOutput) # "" /\ json_loads(PsOutput) = Malformed
          => ~raised /\ (HasTableRow(combined) => ret # <<>>)
    /\ ScanReturned /\ StripNL(ScanOutput) # "" /\ json_loads(ScanOutput) = Malformed
          => ~raised /\ (HasTableRow(SplitLines(ScanOutput)) => ret # <<>>)

\* C9, as the code has it: when the JSON does not decode no parser raises;
\* winget_list_upgrades returns the rows of the table fallback, run on the
\* output of a second command; _ps_get_updates and
\* _scan_windows_updates_quiet have no table fallback and return no rows,
\* the latter with a parse error in the log.
C9_DecodeFailureNeverRaises ==
    /\ UpgradesJsonDeclared /\ json_loads(arg.json_out) = Malformed
          => ~raised /\ ret = UpgradeTableRows(SplitLines(arg.table_out))
    /\ PsSessionReturned /\ StripNL(PsOutput) # "" /\ json_loads(PsOutput) = Malformed
          => ~raised /\ ret = <<>>
    /\ ScanReturned /\ StripNL(ScanOutput) # "" /\ json_loads(ScanOutput) = Malformed
          => /\ ~raised
             /\ ret = <<>>
             /\ \E i \in 1..Len(appended) : appended[i] = "Windows update parse error"

\* _ps_get_updates was given a table of one row in place of JSON and
\* returned no rows.
C9_Witness ==
    /\ PsSessionReturned
    /\ combined = CleanTable(1)
    /\ json_loads(PsOutput) = Malformed
    /\ ret = <<>>
    /\ ~raised

\* The value the object has under the first of the two keys that it has
\* non-empty, "" when under neither.
ValueOf(it, a, b) ==
    IF a \in DOMAIN it.f /\ it.f[a] \notin {None, Str("")} THEN it.f[a]
    ELSE IF b \in DOMAIN it.f /\ it.f[b] \notin {None, Str("")} THEN it.f[b]
    ELSE Str("")

\* The value under the key, dflt when the object has no such key.
ValueOr(it, a, dflt) == IF a \in DOMAIN it.f THEN it.f[a] ELSE dflt

\* An array of objects that all carry an identifier and an available version.
ArrayOfUpgrades(v) ==
    /\ v.k = "list"
    /\ \A i \in 1..Len(v.items) :
          /\ v.items[i].k = "dict"
          /\ ValueOf(v.items[i], "Id", "PackageIdentifier") # Str("")
          /\ ValueOf(v.items[i], "Available", "AvailableVersion") # Str("")

\* The rows are the objects of the array, one to one and in order.
UpgradeRowsMatch(rs, items) ==
    /\ Len(rs) = Len(items)
    /\ \A i \in 1..Len(items) :
          /\ rs[i].id = ValueOf(items[i], "Id", "PackageIdentifier")
          /\ rs[i].name = ValueOr(items[i], "Name", Str(""))
          /\ rs[i].version = ValueOf(items[i], "Version", "InstalledVersion")
          /\ rs[i].available = ValueOf(items[i], "Available", "AvailableVersion")

ArrayOfObjects(v) ==
    v.k = "list" /\ \A i \in 1..Len(v.items) : v.items[i].k = "dict"

UpdateRowsMatch(rs, items) ==
    /\ Len(rs) = Len(items)
    /\ \A i \in 1..Len(items) :
          /\ rs[i].title = ValueOr(items[i], "Title", Str(""))
          /\ rs[i].kb = ValueOr(items[i], "KB", None)
          /\ rs[i].update_id = ValueOr(items[i], "UpdateId", Str(""))
          /\ rs[i].categories =
                (LET c == ValueOr(items[i], "Categories", None)
                 IN  IF c.k = "list" THEN c.items ELSE <<>>)

\* _ps_get_updates returns the objects of its JSON, a lone object as one row.
PsRowsMatch ==
    PsSessionReturned =>
        LET v == json_loads(PsOutput)
        IN  /\ ArrayOfObjects(v) => ~raised /\ UpdateRowsMatch(ret, v.items)
            /\ v.k = "dict" => ~raised /\ UpdateRowsMatch(ret, <<v>>)

\* C10: a well-formed JSON array of k objects that carry the required
\* fields gives exactly k rows, in the order of the array, with the
\* objects' values: winget_list_upgrades' JSON path and _ps_get_updates,
\* which takes a lone object as an array of one.
C10_ArrayOfKGivesKRows ==
    /\ UpgradesJsonDeclared /\ ArrayOfUpgrades(json_loads(arg.json_out))
          => ~raised /\ UpgradeRowsMatch(ret, json_loads(arg.json_out).items)
    /\ PsRowsMatch

\* C10, as the code has it: the same for k >= 1; an empty array makes
\* winget_list_upgrades parse the table of a second command instead, while
\* _ps_get_updates returns no rows for it.
C10_NonEmptyArrayOfKGivesKRows ==
    /\ UpgradesJsonDeclared /\ ArrayOfUpgrades(json_loads(arg.json_out))
          => \/ json_loads(arg.json_out).items = <<>>
                   /\ ~raised
                   /\ ret = UpgradeTableRows(SplitLines(arg.table_out))
             \/ json_loads(arg.json_out).items # <<>>
                   /\ ~raised
                   /\ UpgradeRowsMatch(ret, json_loads(arg.json_out).items)
    /\ PsRowsMatch

\* An array of two objects, the second under the other key names, gave two
\* rows.
C10_Witness ==
    /\ UpgradesJsonDeclared
    /\ arg.json_out = DocUpgAlias
    /\ Len(ret) = 2
    /\ ret[2].id = Str("C.App")
    /\ ret[2].available = Str("5")

\* _ps_get_updates returned one row for each of the updates of a long array.
C10_PsReached ==
    PsSessionReturned /\ Len(ret) = MaxUpdates /\ ret[MaxUpdates].title = Str("U" \o ToString(MaxUpdates))

\* C11: an executable that cannot be started makes the session fail at
\* once and without an exception: run_with_live_output returns exit code
\* 127 having read no line of output, and _ps_get_updates and
\* _stream_winget_upgrades return no rows.
C11_CommandNotFound ==
    /\ mode \in {"live", "ps_updates"} /\ pc = "live_done" /\ ~Session.found
          => /\ ret.rc = 127
             /\ combined = <<>>
             /\ tick = 0
             /\ proc = "none"
             /\ ~raised
    /\ mode = "ps_updates" /\ pc = "ps_returned" /\ ~Session.found
          => ret = <<>> /\ ~raised
    /\ mode = "health" /\ pc = "stream_returned" /\ ~Session.found
          => ret = <<>> /\ proc = "none" /\ ~raised

\* run_with_live_output returned 127 and its message for powercfg.
C11_Witness ==
    /\ mode = "live"
    /\ pc = "live_done"
    /\ ~Session.found
    /\ ret = [rc |-> 127, out |-> "Command not found: powercfg"]

\* Line i of the table ls is a row of its body.
IsBodyRow(ls, i) ==
    /\ AfterHeaderAndSeparator(ls, i)
    /\ ~MatchHeader(ls[i])
    /\ ~MatchSeparator(ls[i])
    /\ Len(ColumnsOf(ls[i])) >= 4
    /\ ~LeadingNo(ColumnsOf(ls[i])[1])
    /\ ~LeadingNo(ColumnsOf(ls[i])[2])

\* C12: when the timeout ends the wait the process is killed and what it
\* printed before the deadline is kept: _stream_winget_upgrades returns the
\* rows of the lines printed so far, _scan_windows_updates_quiet the
\* updates of the document printed so far.
C12_TimeoutKeepsPartialRows ==
    /\ mode = "health" /\ pc = "stream_returned" /\ proc = "killed"
          => \A i \in 1..written :
                IsBodyRow(arg.script[1].lines, i)
                   => \E k \in 1..Len(ret) :
                         ret[k].Id = ColumnsOf(arg.script[1].lines[i])[2]
    /\ mode = "scan" /\ pc = "scan_returned" /\ proc = "killed"
          => (ArrayOfObjects(json_loads(ScanOutput))
                => Len(ret) = Len(json_loads(ScanOutput).items))

\* C14: run_with_live_output returns the exit code of the process as it is
\* when it is not negative, and a non-zero sentinel, never 0 and never a
\* negative number, in place of a negative one.
C14_ExitCodeNormalised ==
    pc = "live_done" /\ proc = "exited"
       => /\ returncode >= 0 => ret.rc = returncode
          /\ returncode < 0 => ret.rc > 0

\* C13: a session whose process neither exits nor prints any more is never
\* blocked: as long as the process hangs the session can take a step (the
\* timeout that ends the wait and kills the process), in
\* run_with_live_output as in the phase helpers of the health check.
C13_HungSessionCanStep ==
    proc = "hung" => ENABLED Next

\* The phase helpers do end the wait: a hung process is killed by their
\* timeout and they return.
C13_HoldsInPhaseHelpers ==
    proc = "hung" /\ (pc \in StreamPcs \/ pc \in ScanPcs) => ENABLED Next

\* The lines run_with_live_output has read from the process.
LinesRead == written - Len(pipe)

\* Line i of ls is a header line, or a separator line after a header line.
HeaderOrSeparator(ls, i) ==
    \/ MatchHeader(RStrip(ls[i]))
    \/ /\ MatchSeparator(RStrip(ls[i]))
       /\ \E h \in 1..(i - 1) : MatchHeader(RStrip(ls[h]))

\* Line i of ls is in the body of the table and is a row or a line of
\* fewer than four columns: no blank, header, separator or "No ..." line.
BodyTextLine(ls, i) ==
    /\ AfterHeaderAndSeparator(ls, i)
    /\ RStrip(ls[i]) # ""
    /\ ~HeaderOrSeparator(ls, i)
    /\ \/ Len(ColumnsOf(ls[i])) < 4
       \/ /\ ~StartsWith(Lower(ColumnsOf(ls[i])[1]), "no ")
          /\ ~StartsWith(Lower(ColumnsOf(ls[i])[2]), "no ")

\* The progress of a phase after k steps of a fiftieth of its range.
AfterSteps(ph, k) == Min(ph.end, ph.start + k * ((ph.end - ph.start) \div StreamEvents))

Printed(n) == [i \in 1..n |-> RStrip(ScriptLine(arg.script[stage], i))]

\* C16: run_with_live_output captures the lines in the order the process
\* printed them, none lost, duplicated or reordered: the captured lines are
\* always the lines read so far, the rolling log is always the last
\* entries of the title followed by them, and the output returned is all
\* the lines the process printed, joined with newlines, whatever the log
\* evicted.
C16_OutputInArrivalOrder ==
    /\ pc \in {"live_loop", "live_wait", "live_return", "live_done"} /\ Session.found
          => /\ combined = Printed(LinesRead)
             /\ IsLastOf(logs, <<Session.title>> \o combined,
                         Min(LiveLogCap, 1 + Len(combined)))
    /\ pc = "live_done" /\ Session.found
          => /\ LinesRead = written
             /\ ret.out = JoinLines(Printed(written))

\* run_with_live_output returned the output of a process that printed more
\* lines than the log holds, a blank one among them.
C16_Witness ==
    /\ pc = "live_done"
    /\ Session.found
    /\ written > LiveLogCap
    /\ \E i \in 1..written : combined[i] = ""
    /\ Len(logs) = LiveLogCap
    /\ ret.out = JoinLines(combined)

\* The entry health_check logs when it skips the Windows updates phase.
SkipMessage == "Windows updates disabled; skipping PowerShell scan."

\* C17 as stated: the Windows updates phase being disabled, the app scan
\* and the junk scan share the whole scale in proportion to their weights
\* 40 and 20: the range of the app scan is 40/60 of the total, and the
\* junk scan begins where the app scan ended.
C17_RangesRenormalised ==
    mode = "health" /\ pc \in {"hc_junk", "hc_junk_size"}
       => /\ 60 * (phase.end - phase.start) = 40 * total
          /\ completed = phase.end

\* C17: the ranges of health_check are fixed and not renormalised: the app
\* scan runs in [0, 40] of 100, the skipped Windows updates phase keeps
\* (40, 80], the progress being set to 80 as it is skipped, and the junk
\* scan takes the progress from 80 to 100.
C17_FixedRanges ==
    mode = "health"
       => /\ pc \in StreamPcs \/ pc = "hc_windows"
             => /\ total = FP(100)
                /\ phase = [start |-> FP(0), end |-> FP(40)]
                /\ completed >= phase.start /\ completed <= phase.end
          /\ pc \in {"hc_junk", "hc_junk_size"} => completed = FP(80)
          /\ pc \in {"hc_complete", "hc_summary"} => completed = FP(100)

\* The junk scan begins at 80, after an app scan that ended at 40 with rows.
C17_Witness ==
    /\ mode = "health"
    /\ pc = "hc_junk"
    /\ phase.end = FP(40)
    /\ completed = FP(80)
    /\ ret # <<>>

\* C18 as stated: the step of health_check that skips the disabled Windows
\* updates phase appends nothing to the log and leaves the progress as it is.
C18_SkippedPhaseLeavesNoTrace ==
    [][pc = "hc_windows" => appended' = appended /\ logs' = logs /\ completed' = completed]_vars

\* C18: the step that skips the Windows updates phase appends one entry,
\* "Windows updates disabled; skipping PowerShell scan.", to the log, which
\* keeps to its capacity, and moves the progress from where the app scan
\* left it, 40 at most, to 80; it runs no process and yields no rows.
C18_SkippedPhaseIsLogged ==
    [][pc = "hc_windows"
          => /\ appended' = Append(appended, SkipMessage)
             /\ logs'[Len(logs')] = SkipMessage
             /\ Len(logs') = Min(HealthLogCap, Len(logs) + 1)
             /\ completed <= FP(40) /\ completed' = FP(80)
             /\ proc' = proc /\ rows' = rows
             /\ pc' = "hc_junk"]_vars

\* The phase was skipped with a full log: the entry is the last of the log
\* and the progress is at 80.
C18_Witness ==
    /\ mode = "health"
    /\ pc = "hc_junk"
    /\ Len(logs) = HealthLogCap
    /\ logs[Len(logs)] = SkipMessage
    /\ Len(appended) > HealthLogCap
    /\ completed = FP(80)

\* C19: no exception leaves health_check, whatever the dependency check
\* and the phases meet.
C19_HealthCheckNeverRaises ==
    mode = "health" => ~raised /\ pc # "hc_raised"

\* Past the dependency check no exception leaves health_check: an
\* executable not found, a timeout, a non-zero exit and output without a
\* table all lead on to the summary.
C19_HoldsAfterDeps ==
    mode = "health" /\ pc \notin {"hc_deps", "hc_raised"} => ~raised

\* C20: when the process exits with a non-zero code, _stream_winget_upgrades
\* and _ps_get_updates return no rows, whatever the process printed.
C20_NonZeroExitGivesNoRows ==
    /\ StreamReturned /\ returncode # 0 => ret = <<>>
    /\ mode = "ps_updates" /\ pc = "ps_returned" /\ proc = "exited" /\ returncode # 0
          => ret = <<>>

\* The part of C20 that holds: _ps_get_updates.
C20_HoldsInPsGetUpdates ==
    mode = "ps_updates" /\ pc = "ps_returned" /\ proc = "exited" /\ returncode # 0
       => ret = <<>>

\* C21: a session that spawned its process returns only once the process
\* has exited and has been waited on, on the timeout path too:
\* run_with_live_output, _stream_winget_upgrades and
\* _scan_windows_updates_quiet.
C21_ProcessReaped ==
    /\ pc = "live_done" /\ Session.found => proc = "exited" /\ reaped
    /\ mode = "health" /\ pc = "stream_returned" /\ Session.found
          => proc = "exited" /\ reaped
    /\ mode = "scan" /\ pc = "scan_returned" /\ Session.found
          => proc = "exited" /\ reaped

\* The part of C21 that holds: run_with_live_output, and the phase helpers
\* when communicate() returns.
C21_HoldsWithoutTimeout ==
    /\ pc = "live_done" /\ Session.found => proc = "exited" /\ reaped
    /\ pc \in {"stream_returned", "scan_returned"} /\ proc = "exited" => reaped

\* C22: a phase helper called with phase_start > phase_end stops at once:
\* it raises, spawns no process and leaves the progress and the log as they
\* were.
C22_MalformedRangeRejected ==
    mode = "scan" /\ pc \in ScanPcs \ {"scan_spawn"} /\ phase.start > phase.end
       => /\ raised
          /\ proc = "none"
          /\ completed = phase.start
          /\ appended = <<>>

\* C23: when a session or the health check is over, the last frame the
\* Live display rendered shows the final progress and the last log lines:
\* soft_total and the log for run_with_live_output, 100 and the last 20
\* entries for health_check.
C23_FinalStateRendered ==
    /\ pc = "live_done" /\ Session.found
          => ~live /\ shown = [completed |-> FP(Session.soft_total), logs |-> logs]
    /\ mode = "health" /\ pc = "hc_summary"
          => ~live /\ shown = [completed |-> FP(100), logs |-> LastN(logs, HealthLogCap)]

\* The part of C23 that holds: run_with_live_output.
C23_HoldsInLiveSession ==
    pc = "live_done" /\ Session.found
       => ~live /\ shown = [completed |-> FP(Session.soft_total), logs |-> logs]

\* C24: before run_with_live_output reads the first line of output the
\* title is the one entry of the log and the bar is at 0, the start of its
\* range, and the display is running when the first read begins; the title
\* stays the first entry appended.
C24_TitleShownFirst ==
    /\ pc \in {"live_spawn", "live_loop"} /\ tick = 0
          => /\ logs = <<Session.title>>
             /\ completed = 0
             /\ total = FP(Session.soft_total)
             /\ combined = <<>>
    /\ pc = "live_loop" => live
    /\ pc \in LivePcs => appended # <<>> /\ appended[1] = Session.title

\* The process has printed and the session has read nothing yet: the
\* display runs with the title in the log and the bar at 0.
C24_Witness ==
    /\ mode = "live"
    /\ pc = "live_loop"
    /\ written > 0
    /\ tick = 0
    /\ live
    /\ logs = <<"Power plan: Balanced">>
    /\ completed = 0

\* The sessions winget_upgrade runs for the rows of the app scan.
UpgradesOf(found) == [i \in 1..Len(found) |-> UpgradeTitle(found[i].Id)]

\* C25: health_check runs no upgrade and no cleaning before the Fix All
\* prompt, and none at all when the answer is anything other than "y";
\* when the answer is "y" it upgrades exactly the applications of the rows
\* the scan found, if any, and cleans junk only if the junk size is greater
\* than zero.
C25_FixAllOnlyWhenChosen ==
    /\ mode = "health" /\ pc \notin {"hc_fix_junk", "hc_returned"} => ran = <<>>
    /\ mode = "health" /\ pc = "hc_fix_junk"
          => choice = "y" /\ ran = (IF ret # <<>> THEN UpgradesOf(ret) ELSE <<>>)
    /\ mode = "health" /\ pc = "hc_returned" /\ choice # "y" => ran = <<>>
    /\ mode = "health" /\ pc = "hc_returned" /\ choice = "y"
          => ran = (IF ret # <<>> THEN UpgradesOf(ret) ELSE <<>>)
                   \o (IF junk_size > 0 THEN <<"clean_junk">> ELSE <<>>)

\* The answer was "yes": the scan found rows and junk, and health_check
\* returned after running nothing.
C25_Witness ==
    /\ mode = "health"
    /\ pc = "hc_returned"
    /\ choice = "yes"
    /\ ret # <<>>
    /\ junk_size > 0
    /\ ran = <<>>

\* The answer was " Y": the applications were upgraded and the junk cleaned.
C25_Applied ==
    /\ mode = "health"
    /\ pc = "hc_returned"
    /\ choice = "y"
    /\ Len(ran) >= 2
    /\ ran[Len(ran)] = "clean_junk"
    /\ ran[1] = UpgradeTitle(ret[1].Id)

\* s.endswith(p)
EndsWith(s, p) == Len(s) >= Len(p) /\ SubSeq(s, Len(s) - Len(p) + 1, Len(s)) = p

\* The message of the last call of log in the run.
LastMessage == arg.msgs[Len(arg.msgs)]

\* The last call of log wrote its line.
LastWriteDone == arg.io[Len(arg.msgs)]

\* C26: after log(msg) has written msg, tail_log(n) with n >= 1 on the
\* readable file ends with the line of msg, the time stamp, " | " and msg,
\* whatever the file held before; log never raises, and a call of log
\* changes nothing but the log file, and not even that when the write fails.
C26_LogThenTail ==
    /\ [](mode = "log" => ~raised)
    /\ [](mode = "log" /\ pc = "log_returned" /\ LastWriteDone /\ arg.readable
             /\ arg.n >= 1
          => /\ EndsWith(ret.s, LogLine(arg.clock, LastMessage))
             /\ Contains(ret.s, LastMessage))
    /\ [][mode = "log" /\ pc = "log_call" /\ pc' = "log_call"
          => /\ UNCHANGED <<ret, raised, appended, logs, completed, ran, proc>>
             /\ (~arg.io[stage] => log_file' = log_file)
             /\ (arg.io[stage] => log_file'.exists
                                  /\ EndsWith(log_file'.text, arg.msgs[stage] \o "\n"))]_vars

\* Three older lines, two messages logged, and the tail of one line is the
\* line of the second message.
C26_Witness ==
    /\ mode = "log"
    /\ pc = "log_returned"
    /\ arg.file.text = "old 1\nold 2\nold 3\n"
    /\ arg.msgs = <<"first", "Test log entry">>
    /\ arg.io[1] /\ arg.io[2]
    /\ arg.n = 1
    /\ ret.s = "2026-01-01 12:00:00 | Test log entry"

\* The last min(n, total) lines, in file order.
LastLines(ls, n) == SubSeq(ls, Len(ls) - Min(n, Len(ls)) + 1, Len(ls))

\* What tail_log is to return for the file as it is.
TailExpected ==
    IF ~log_file.exists \/ ~arg.readable THEN ""
    ELSE JoinLines(LastLines(SplitLines(log_file.text), arg.n))

\* C27: tail_log(n) returns the last min(n, total) lines of the log file in
\* file order for every n >= 0, the empty string for n = 0, and the empty
\* string when the file is missing or cannot be read.
C27_TailReturnsLastLines ==
    mode = "log" /\ pc = "log_returned"
       => /\ ret.s = TailExpected
          /\ Len(SplitLines(ret.s)) <= arg.n

\* The part of C27 that holds: n >= 1, and the missing or unreadable file.
C27_HoldsForPositiveN ==
    mode = "log" /\ pc = "log_returned"
       /\ (arg.n >= 1 \/ ~log_file.exists \/ ~arg.readable)
       => /\ ret.s = TailExpected
          /\ Len(SplitLines(ret.s)) <= arg.n

\* C28: the sessions winget_upgrade(ids) has run are those of the first
\* identifiers of the list, one each and in list order; a session starts
\* only when no process of an earlier one is running; after a session the
\* loop goes on to the next identifier whatever the exit code was, 127
\* included; and when winget_upgrade returns every identifier has had its
\* one session.
C28_OneSessionPerIdInOrder ==
    /\ [](mode = "upgrade"
          => /\ Len(ran) <= Len(arg.ids)
             /\ ran = [i \in 1..Len(ran) |-> UpgradeTitle(arg.ids[i])]
             /\ (pc \in LivePcs => stage = Len(ran) /\ pid = arg.ids[stage])
             /\ (pc = "upgrade_returned" => Len(ran) = Len(arg.ids)))
    /\ [][mode = "upgrade" /\ ran' # ran
          => /\ proc \notin {"running", "hung"}
             /\ ran' = Append(ran, UpgradeTitle(pid))]_vars
    /\ [][mode = "upgrade" /\ pc = "live_done"
          => IF stage < Len(arg.ids)
             THEN pc' = "live_start" /\ pid' = arg.ids[stage + 1]
             ELSE pc' = "upgrade_returned"]_vars

\* Three identifiers and no winget: every session returned 127 and each
\* identifier had its session.
C28_Witness ==
    /\ mode = "upgrade"
    /\ pc = "upgrade_returned"
    /\ ~arg.found
    /\ ran = <<"Updating A.App", "Updating B.App", "Updating C.App">>

\* The applications winget_list_installed returned to winget_uninstall_fuzzy.
InstalledRows == winget_list_installed(arg.ready, arg.table_out).rows

\* Their indices whose id is the query, case ignored.
ExactIds ==
    {i \in 1..Len(InstalledRows) : Lower(InstalledRows[i].id.s) = Lower(arg.query)}

\* The selection typed is a number within 1..number of name matches.
SelectionInRange ==
    LET sel == Strip(arg.sel)
    IN  /\ isdigit(sel)
        /\ ~IntRaises(sel)
        /\ 1 <= int(sel)
        /\ int(sel) <= Len(NameMatches(InstalledRows, arg.query))

\* What C29 says of a call of winget_uninstall_fuzzy whose list of
\* installed applications was retrieved.
UninstallsAsClaimed ==
    LET matches == NameMatches(InstalledRows, arg.query)
        first == CHOOSE i \in ExactIds : \A j \in ExactIds : i <= j
        returned == pc = "uninstall_returned"
    IN  /\ Len(ran) <= 1
        /\ returned => (ret # None <=> Len(ran) = 1)
        /\ returned /\ Len(ran) = 1
              => ret = Str(pid) /\ ran = <<"Uninstall " \o pid>>
        /\ returned /\ ExactIds # {} => ret = Str(InstalledRows[first].id.s)
        /\ returned /\ ExactIds = {} /\ Len(matches) = 1 => ret = Str(matches[1].id.s)
        /\ returned /\ ExactIds = {} /\ Len(matches) = 0 => ret = None
        /\ ExactIds = {} /\ Len(matches) > 1 /\ pc # "uninstall_start"
              => IF SelectionInRange
                 THEN pid = matches[int(Strip(arg.sel))].id.s
                      /\ (returned => ret = Str(pid))
                 ELSE returned /\ ret = None /\ ran = <<>>

\* C29: winget_uninstall_fuzzy(query) runs at most one uninstall and returns
\* the id exactly when it ran one: the first application whose id is the
\* query, case ignored, else the only application whose name holds the
\* query, else, with several such names, the one selected by a number within
\* 1..number of matches; with any other selection it uninstalls nothing
\* and returns None.
C29_UninstallsAtMostOne ==
    mode = "uninstall" /\ arg.ready # "popen_error" => UninstallsAsClaimed

\* The part of C29 that holds: selections that are not made of digits
\* int() rejects.
C29_HoldsForDecimalSelections ==
    mode = "uninstall" /\ arg.ready # "popen_error"
       /\ (isdigit(Strip(arg.sel)) => ~IntRaises(Strip(arg.sel)))
       => UninstallsAsClaimed

=============================================================================
